---- MODULE Spec2Model ----
(***************************************************************************)
(* Verification model of glcs: the generic worker-thread framework         *)
(* (glc/common/thread.c) driving filters between two packetstream ring     *)
(* buffers, and the ALSA capture producer (glc/capture/alsa_capture.c).    *)
(*                                                                         *)
(* The packetstream ring buffer itself is not part of the sources; its     *)
(* operations (Ps...) follow section 4.1 of the specification.             *)
(***************************************************************************)
EXTENDS Integers, Sequences, FiniteSets, TLC

(***************************************************************************)
(* Bounds of the model.                                                    *)
(***************************************************************************)
NWorkers == 2      \* threads of the read+write worker group
MaxPkts == 1       \* data packets of the input stream (before CLOSE)
BufCap == 2        \* packets a ring buffer can hold at once
MaxFaults == 1     \* callback failures injected in one run

(***************************************************************************)
(* Threads, groups and buffers.  Threads 1..NWorkers are the workers of a  *)
(* read+write filter group (pack/unpack); thread NWorkers+1 is the single  *)
(* thread of a read-only group (file or pipe sink) reading the filter's    *)
(* output buffer.                                                          *)
(***************************************************************************)
Workers == 1..NWorkers
SinkThread == NWorkers + 1
Threads == 1..(NWorkers + 1)
Groups == {"filter", "sink"}
Group(t) == IF t \in Workers THEN "filter" ELSE "sink"
GroupThreads(g) == {t \in Threads : Group(t) = g}

GLC_THREAD_READ == "READ"
GLC_THREAD_WRITE == "WRITE"
GLC_THREAD_COPY == "COPY"
GLC_THREAD_STATE_UNKNOWN_FINAL_SIZE == "UNKNOWN_FINAL_SIZE"

\* thread->flags of each group (pack.c:121, file.c:158)
ThreadFlags(g) == IF g = "filter" THEN {GLC_THREAD_READ, GLC_THREAD_WRITE}
                  ELSE {GLC_THREAD_READ}
\* private->from and private->to of each group
FromBuf(g) == IF g = "filter" THEN "in" ELSE "out"
ToBuf(g) == "out"
IsRW(g) == GLC_THREAD_READ \in ThreadFlags(g) /\ GLC_THREAD_WRITE \in ThreadFlags(g)

(***************************************************************************)
(* Packets: a message header type and the identity of the payload.         *)
(***************************************************************************)
DataPkt(n) == [type |-> "DATA", seq |-> n]
ClosePkt(n) == [type |-> "CLOSE", seq |-> n]
NoPkt == [type |-> "NONE", seq |-> 0]

RECURSIVE DataStream(_)
DataStream(n) == IF n = 0 THEN <<>> ELSE Append(DataStream(n - 1), DataPkt(n))

\* input streams of the upstream producer: k data packets, closed or not yet
InStreams == {DataStream(k) : k \in 0..MaxPkts}
             \cup {Append(DataStream(k), ClosePkt(k + 1)) : k \in 0..MaxPkts}

VARIABLES
  glcCancel,   \* glc->state_flags & GLC_STATE_CANCEL
  inStream,    \* packets the upstream producer will publish
  prodIdx,     \* packets the producer has published (or given up on)
  buf,         \* the two ring buffers
  priv,        \* struct glc_thread_private_s of each group
  th,          \* locals of glc_thread() of each thread
  faults,      \* callback failures injected so far
  inLog,       \* packets claimed from the input buffer, in claim order
  sinkLog,     \* slots claimed by the sink from the output buffer
  intrAt,      \* output slots at which a read open was interrupted
  failedAt     \* output slots whose writer failed after setsize

tvars == <<glcCancel, inStream, prodIdx, buf, priv, th, faults, inLog, sinkLog, intrAt, failedAt>>

\* the ALSA capture source (glc/capture/alsa_capture.c)
VARIABLES
  ac,          \* struct alsa_capture_s: skip_data, stop_capture, nfds, thread.running
  apc,         \* position of alsa_capture_thread()
  cpc,         \* position of the thread calling start, stop or destroy
  pipe,        \* bytes waiting in the interrupt pipe
  pcm,         \* state of the PCM device
  avail,       \* periods waiting in the device's ring buffer
  revents,     \* what the last poll() returned
  abuf,        \* packets the source has published on its target buffer
  abufCancelled, \* the target buffer is cancelled
  hist         \* history of the run

avars == <<ac, apc, cpc, pipe, pcm, avail, revents, abuf, abufCancelled, hist>>

\* the state time (glc/common/state.c) and the capture control of hook/main.c
VARIABLES
  clk,         \* glc_time(): the monotonic clock since initialisation
  tm,          \* time_difference, stop_time, LIB_CAPTURING, reload requests queued
  stamps       \* hdr.time of the AUDIO_DATA packets of one stream, in order

kvars == <<clk, tm, stamps>>

\* pack, file sink, file source and unpack applied to one packet sequence
\* (glc/core/pack.c, glc/core/file.c)
VARIABLES
  orig,            \* the packets handed to pack, the last one a CLOSE
  compression,     \* pack->compression
  stream_version,  \* info.version of the file
  stage,           \* which stage runs
  packed,          \* what pack published
  direct,          \* what unpack publishes when it reads pack's buffer itself
  disk,            \* the file after its info header, field by field
  eofCut,          \* the file ends before its CLOSE message is complete
  rpos,            \* the read position of file_read()
  src,             \* what file_read() published
  srcCancelled,    \* file_read() called ps_buffer_cancel(to)
  out              \* what unpack published from the file source's buffer

cvars == <<orig, compression, stream_version, stage, packed, direct, disk,
           eofCut, rpos, src, srcCancelled, out>>

\* a sink (glc/core/file.c, glc/core/pipe.c) with its write thread and the
\* callback hook/main.c registers
VARIABLES
  sink,        \* the sink object, its targets, and the state tracker
  sq,          \* the sink's input buffer
  sth,         \* the sink's write thread
  slog         \* what was fed, requested and seen so far

svars == <<sink, sq, sth, slog>>

\* close_pipe() and the child of the pipe sink (glc/core/pipe.c): shut is the state of close_pipe(), child the child, ev what happened to the child at hand, nchild the number of children so far
VARIABLES
  shut,
  child,
  ev,
  nchild

pvars == <<shut, child, ev, nchild>>

\* a frame writer (glc/core/frame_writers.c): fw is the writer, wpc what its user does, accepted the bytes the pipe took of the frame at hand, wret what write_init or write returned last, wlog the frames and configurations so far, whether a frame was given up and whether accepted is of a frame of the configuration at hand
VARIABLES
  fw,
  wpc,
  accepted,
  wret,
  wlog

wvars == <<fw, wpc, accepted, wret, wlog>>

\* the demux (glc/play/demux.c): dmx is the demux with its sub-stream lists and the state flag GLC_STATE_CANCEL, dlog the messages read, the players that left, the sub-streams that met a protocol violation and the number of messages read by then
VARIABLES
  dmx,
  dlog

dvars == <<dmx, dlog>>

\* starting and stopping the capture
VARIABLES
  cap,
  req,
  clog

mvars == <<cap, req, clog>>

\* the stream ids
VARIABLES
  sids,
  alloc,
  ilog

nvars == <<sids, alloc, ilog>>

\* the write thread of the file sink and the caller of write_process_wait
VARIABLES
  js,
  jth,
  jw

jvars == <<js, jth, jw>>

\* a worker group in creation: the private structure, the workers, the calls of the finish callback
VARIABLES
  gpriv,
  gth,
  glog

gvars == <<gpriv, gth, glog>>

vars == <<tvars, avars, kvars, cvars, svars, pvars, wvars, dvars, mvars, nvars, jvars, gvars>>

\* what each part of the model leaves alone
restT == <<avars, kvars, cvars, svars, pvars, wvars, dvars, mvars, nvars, jvars, gvars>>
restA == <<tvars, kvars, cvars, svars, pvars, wvars, dvars, mvars, nvars, jvars, gvars>>
restK == <<tvars, avars, cvars, svars, pvars, wvars, dvars, mvars, nvars, jvars, gvars>>
restC == <<tvars, avars, kvars, svars, pvars, wvars, dvars, mvars, nvars, jvars, gvars>>
restS == <<tvars, avars, kvars, cvars, pvars, wvars, dvars, mvars, nvars, jvars, gvars>>
restP == <<tvars, avars, kvars, cvars, svars, wvars, dvars, mvars, nvars, jvars, gvars>>
restW == <<tvars, avars, kvars, cvars, svars, pvars, dvars, mvars, nvars, jvars, gvars>>
restD == <<tvars, avars, kvars, cvars, svars, pvars, wvars, mvars, nvars, jvars, gvars>>
restM == <<tvars, avars, kvars, cvars, svars, pvars, wvars, dvars, nvars, jvars, gvars>>
restN == <<tvars, avars, kvars, cvars, svars, pvars, wvars, dvars, mvars, jvars, gvars>>
restJ == <<tvars, avars, kvars, cvars, svars, pvars, wvars, dvars, mvars, nvars, gvars>>
restG == <<tvars, avars, kvars, cvars, svars, pvars, wvars, dvars, mvars, nvars, jvars>>

(***************************************************************************)
(* packetstream (specification 4.1).  A buffer is the sequence of all      *)
(* packet slots ever reserved on it; a slot is open (reserved by a         *)
(* writer), written (closed by the writer), claimed (opened by a reader)   *)
(* or freed (closed by the reader).                                        *)
(***************************************************************************)
EmptyBuffer == [slots |-> <<>>, cancelled |-> FALSE, wlock |-> 0]

LiveSlots(b) == {i \in 1..Len(b.slots) : b.slots[i].st # "freed"}

\* index of the oldest packet no reader has claimed yet (0: none)
PsNextRead(b) ==
  LET c == {i \in 1..Len(b.slots) : b.slots[i].st \in {"open", "written"}}
  IN IF c = {} THEN 0 ELSE CHOOSE i \in c : \A j \in c : i <= j

\* open(READ) returns: the buffer is dead, or the oldest packet is published
PsCanOpenRead(b) ==
  b.cancelled \/ (PsNextRead(b) # 0 /\ b.slots[PsNextRead(b)].st = "written")

\* open(WRITE) returns: the buffer is dead, or a slot can be reserved
PsCanOpenWrite(b) ==
  b.cancelled \/ (b.wlock = 0 /\ Cardinality(LiveSlots(b)) < BufCap)

PsOpenRead(b) == [b EXCEPT !.slots[PsNextRead(b)].st = "claimed"]

PsOpenWrite(b, t) ==
  [b EXCEPT !.slots = Append(@, [hdr |-> "NONE", pay |-> 0, st |-> "open",
                                 sized |-> FALSE]),
            !.wlock = t]

PsSetSize(b, i, t) ==
  [b EXCEPT !.slots[i].sized = TRUE, !.wlock = IF @ = t THEN 0 ELSE @]

PsWritePayload(b, i, n) == [b EXCEPT !.slots[i].pay = n]

PsWriteHeader(b, i, ty) == [b EXCEPT !.slots[i].hdr = ty]

\* close on the writer side publishes the packet; a dead buffer ignores it
PsCloseWrite(b, i, t) ==
  IF b.cancelled THEN b
  ELSE [b EXCEPT !.slots[i].st = "written", !.wlock = IF @ = t THEN 0 ELSE @]

\* close on the reader side frees the packet
PsCloseRead(b, i) ==
  IF b.cancelled THEN b ELSE [b EXCEPT !.slots[i].st = "freed"]

PsBufferCancel(b) == [b EXCEPT !.cancelled = TRUE]

SlotPkt(s) == [type |-> s.hdr, seq |-> s.pay]

(***************************************************************************)
(* Initial state: glc_thread_create() has started every thread.            *)
(***************************************************************************)
InitThread == [pc |-> "loop", has_locked |-> FALSE, ret |-> "OK",
               write_size_set |-> FALSE, header |-> NoPkt, flags |-> {},
               rslot |-> 0, wslot |-> 0]

InitPriv(g) == [open |-> 0, stop |-> FALSE,
                running_threads |-> Cardinality(GroupThreads(g)),
                ret |-> "OK", finish_calls |-> 0]

TInit ==
  /\ glcCancel = FALSE
  /\ inStream \in InStreams
  /\ prodIdx = 0
  /\ buf = [b \in {"in", "out"} |-> EmptyBuffer]
  /\ priv = [g \in Groups |-> InitPriv(g)]
  /\ th = [t \in Threads |-> InitThread]
  /\ faults = 0
  /\ inLog = <<>>
  /\ sinkLog = <<>>
  /\ intrAt = {}
  /\ failedAt = {}


(***************************************************************************)
(* The upstream producer (a capture source or the file source) publishes   *)
(* the next packet of its stream on the input buffer; on a dead buffer it  *)
(* gets "interrupted" and gives up.                                        *)
(***************************************************************************)
Produce ==
  /\ prodIdx < Len(inStream)
  /\ PsCanOpenWrite(buf["in"])
  /\ IF buf["in"].cancelled
     THEN /\ prodIdx' = Len(inStream)
          /\ buf' = buf
     ELSE /\ prodIdx' = prodIdx + 1
          /\ buf' = [buf EXCEPT !["in"].slots =
                       Append(@, [hdr |-> inStream[prodIdx + 1].type,
                                  pay |-> inStream[prodIdx + 1].seq,
                                  st |-> "written", sized |-> TRUE])]
  /\ UNCHANGED <<glcCancel, inStream, priv, th, faults, inLog, sinkLog, intrAt, failedAt, restT>>

(***************************************************************************)
(* glc_thread(): one action per step between two suspension points.        *)
(***************************************************************************)
\* a failed call: ret is set and control goes to the err label
GotoErr(t, code) == [th EXCEPT ![t].ret = code, ![t].pc = "err"]

\* thread.c:181-184: the open mutex is taken when reading and writing
LockOpenNoMutex(t) ==
  /\ th[t].pc = "loop"
  /\ th' = [th EXCEPT ![t].pc = "ropen", ![t].has_locked = IsRW(Group(t))]
  /\ UNCHANGED <<glcCancel, inStream, prodIdx, buf, priv, faults, inLog, sinkLog, intrAt, failedAt, restT>>

LockOpen(t) ==
  /\ th[t].pc = "loop"
  /\ IF IsRW(Group(t))
     THEN /\ priv[Group(t)].open = 0
          /\ priv' = [priv EXCEPT ![Group(t)].open = t]
          /\ th' = [th EXCEPT ![t].pc = "ropen", ![t].has_locked = TRUE]
     ELSE /\ priv' = priv
          /\ th' = [th EXCEPT ![t].pc = "ropen"]
  /\ UNCHANGED <<glcCancel, inStream, prodIdx, buf, faults, inLog, sinkLog, intrAt, failedAt, restT>>

\* thread.c:186-188: ps_packet_open(&read, PS_PACKET_READ)
ReadOpen(t) ==
  LET f == FromBuf(Group(t))
      i == PsNextRead(buf[f])
  IN
  /\ th[t].pc = "ropen"
  /\ PsCanOpenRead(buf[f])
  /\ IF buf[f].cancelled
     THEN /\ th' = GotoErr(t, "EINTR")
          /\ intrAt' = IF f = "out" THEN intrAt \cup {Len(sinkLog) + 1} ELSE intrAt
          /\ UNCHANGED <<buf, inLog, sinkLog>>
     ELSE /\ buf' = [buf EXCEPT ![f] = PsOpenRead(@)]
          /\ th' = [th EXCEPT ![t].pc = "rcb", ![t].rslot = i]
          /\ inLog' = IF f = "in" THEN Append(inLog, SlotPkt(buf[f].slots[i])) ELSE inLog
          /\ sinkLog' = IF f = "out" THEN Append(sinkLog, buf[f].slots[i]) ELSE sinkLog
          /\ intrAt' = intrAt
  /\ UNCHANGED <<glcCancel, inStream, prodIdx, priv, faults, failedAt, restT>>

\* state.flags a filter's read callback leaves: COPY (pack.c:300, pack.c:492)
\* or none (the write callback fills the packet); no filter of the repository
\* sets SKIP_READ, SKIP_WRITE, UNKNOWN_FINAL_SIZE or STOP
FilterFlagChoices(g) ==
  IF g = "filter"
  THEN {{GLC_THREAD_COPY}, {}}
  ELSE {{}}

\* thread.c:189-211: read the header, getsize, header callback, dma, read callback
ReadCallbacks(t) ==
  LET f == FromBuf(Group(t))
      s == buf[f].slots[th[t].rslot]
  IN
  /\ th[t].pc = "rcb"
  /\ \/ /\ buf[f].cancelled
        /\ th' = GotoErr(t, "EINTR")
        /\ faults' = faults
     \/ /\ ~buf[f].cancelled
        /\ faults < MaxFaults
        /\ faults' = faults + 1
        /\ th' = [th EXCEPT ![t].ret = "ERR", ![t].pc = "err", ![t].header = SlotPkt(s)]
     \/ /\ ~buf[f].cancelled
        /\ faults' = faults
        /\ \E fl \in FilterFlagChoices(Group(t)) :
             th' = [th EXCEPT ![t].header = SlotPkt(s), ![t].flags = fl,
                              ![t].pc = IF GLC_THREAD_WRITE \in ThreadFlags(Group(t))
                                        THEN "wopen" ELSE "rclose"]
  /\ UNCHANGED <<glcCancel, inStream, prodIdx, buf, priv, inLog, sinkLog, intrAt, failedAt, restT>>

WriteOpen(t) ==
  LET o == ToBuf(Group(t))
  IN
  /\ th[t].pc = "wopen"
  /\ PsCanOpenWrite(buf[o])
  /\ IF buf[o].cancelled
     THEN /\ th' = GotoErr(t, "EINTR")
          /\ UNCHANGED <<buf, priv>>
     ELSE /\ buf' = [buf EXCEPT ![o] = PsOpenWrite(@, t)]
          /\ th' = [th EXCEPT ![t].pc = "wsize", ![t].wslot = Len(buf[o].slots) + 1,
                              ![t].has_locked = FALSE]
          /\ priv' = IF th[t].has_locked
                     THEN [priv EXCEPT ![Group(t)].open = 0] ELSE priv
  /\ UNCHANGED <<glcCancel, inStream, prodIdx, faults, inLog, sinkLog, intrAt, failedAt, restT>>

\* thread.c:224-235: seek past the header; setsize unless the size is unknown
WriteSetSize(t) ==
  LET o == ToBuf(Group(t))
  IN
  /\ th[t].pc = "wsize"
  /\ IF buf[o].cancelled
     THEN /\ th' = GotoErr(t, "EINTR")
          /\ buf' = buf
     ELSE IF GLC_THREAD_STATE_UNKNOWN_FINAL_SIZE \in th[t].flags
          THEN /\ th' = [th EXCEPT ![t].pc = "wdata"]
               /\ buf' = buf
          ELSE /\ th' = [th EXCEPT ![t].pc = "wdata", ![t].write_size_set = TRUE]
               /\ buf' = [buf EXCEPT ![o] = PsSetSize(@, th[t].wslot, t)]
  /\ UNCHANGED <<glcCancel, inStream, prodIdx, priv, faults, inLog, sinkLog, intrAt, failedAt, restT>>

\* thread.c:237-260: copy the payload, or dma and the write callback; then
\* seek to 0 and write the header
WriteData(t) ==
  LET o == ToBuf(Group(t))
  IN
  /\ th[t].pc = "wdata"
  /\ \/ /\ buf[o].cancelled
        /\ th' = GotoErr(t, "EINTR")
        /\ UNCHANGED <<buf, faults, failedAt>>
     \/ /\ ~buf[o].cancelled
        /\ GLC_THREAD_COPY \notin th[t].flags
        /\ faults < MaxFaults
        /\ faults' = faults + 1
        /\ th' = GotoErr(t, "ERR")
        /\ failedAt' = IF th[t].write_size_set THEN failedAt \cup {th[t].wslot}
                       ELSE failedAt
        /\ buf' = buf
     \/ /\ ~buf[o].cancelled
        /\ faults' = faults
        /\ failedAt' = failedAt
        /\ th' = [th EXCEPT ![t].pc = "rclose"]
        /\ buf' = [buf EXCEPT ![o] =
                     PsWriteHeader(PsWritePayload(@, th[t].wslot, th[t].header.seq),
                                   th[t].wslot, th[t].header.type)]
  /\ UNCHANGED <<glcCancel, inStream, prodIdx, priv, inLog, sinkLog, intrAt, restT>>

\* thread.c:263-274: unlock if writing was skipped; ps_packet_close(&read)
ReadClose(t) ==
  LET f == FromBuf(Group(t))
  IN
  /\ th[t].pc = "rclose"
  /\ buf' = [buf EXCEPT ![f] = PsCloseRead(@, th[t].rslot)]
  /\ priv' = IF th[t].has_locked THEN [priv EXCEPT ![Group(t)].open = 0] ELSE priv
  /\ th' = [th EXCEPT ![t].has_locked = FALSE,
                      ![t].pc = IF GLC_THREAD_WRITE \in ThreadFlags(Group(t))
                                THEN "wclose" ELSE "ccb"]
  /\ UNCHANGED <<glcCancel, inStream, prodIdx, faults, inLog, sinkLog, intrAt, failedAt, restT>>

\* thread.c:276-286: setsize if still unset, then ps_packet_close(&write)
WriteClose(t) ==
  LET o == ToBuf(Group(t))
  IN
  /\ th[t].pc = "wclose"
  /\ IF ~th[t].write_size_set /\ buf[o].cancelled
     THEN /\ th' = GotoErr(t, "EINTR")
          /\ buf' = buf
     ELSE /\ th' = [th EXCEPT ![t].pc = "ccb"]
          /\ buf' = [buf EXCEPT ![o] =
                       PsCloseWrite(IF th[t].write_size_set THEN @
                                    ELSE PsSetSize(@, th[t].wslot, t),
                                    th[t].wslot, t)]
  /\ UNCHANGED <<glcCancel, inStream, prodIdx, priv, faults, inLog, sinkLog, intrAt, failedAt, restT>>

\* thread.c:299-301: the condition of the do-while loop
LoopAgain(t) ==
  /\ ~glcCancel
  /\ th[t].header.type # "CLOSE"
  /\ ~priv[Group(t)].stop

\* only the pipe sink registers a close callback (pipe.c:161)
HasCloseCallback(g) == g = "sink"

\* thread.c:288-301: close callback, reset of the flags, loop condition
CloseCallback(t) ==
  /\ th[t].pc = "ccb"
  /\ \/ /\ HasCloseCallback(Group(t))
        /\ faults < MaxFaults
        /\ faults' = faults + 1
        /\ th' = GotoErr(t, "ERR")
     \/ /\ faults' = faults
        /\ th' = [th EXCEPT ![t].flags = {}, ![t].write_size_set = FALSE,
                            ![t].pc = IF LoopAgain(t) THEN "loop" ELSE "finish"]
  /\ UNCHANGED <<glcCancel, inStream, prodIdx, buf, priv, inLog, sinkLog, intrAt, failedAt, restT>>

\* the err label closes (publishes) the output packet it leaves behind
ErrPathClosesPacket(t) ==
  /\ th[t].pc = "err"
  /\ priv' = IF th[t].has_locked THEN [priv EXCEPT ![Group(t)].open = 0] ELSE priv
  /\ buf' = IF th[t].wslot # 0 /\ th[t].ret = "ERR"
            THEN [buf EXCEPT ![ToBuf(Group(t))] = PsCloseWrite(@, th[t].wslot, t)]
            ELSE buf
  /\ IF th[t].ret = "EINTR"
     THEN /\ th' = [th EXCEPT ![t].ret = "OK", ![t].pc = "finish"]
          /\ glcCancel' = glcCancel
     ELSE /\ th' = [th EXCEPT ![t].pc = "finish"]
          /\ glcCancel' = TRUE
  /\ UNCHANGED <<inStream, prodIdx, faults, inLog, sinkLog, intrAt, failedAt, restT>>

\* thread.c:348-359: the err label
ErrPath(t) ==
  /\ th[t].pc = "err"
  /\ priv' = IF th[t].has_locked THEN [priv EXCEPT ![Group(t)].open = 0] ELSE priv
  /\ IF th[t].ret = "EINTR"
     THEN /\ th' = [th EXCEPT ![t].ret = "OK", ![t].pc = "finish"]
          /\ glcCancel' = glcCancel
     ELSE /\ th' = [th EXCEPT ![t].pc = "finish"]
          /\ glcCancel' = TRUE
  /\ UNCHANGED <<inStream, prodIdx, buf, faults, inLog, sinkLog, intrAt, failedAt, restT>>

\* thread.c:303-313: destroy the packets; the first thread out sets stop
FinishWake(t) ==
  /\ th[t].pc = "finish"
  /\ IF GLC_THREAD_READ \in ThreadFlags(Group(t)) /\ ~priv[Group(t)].stop
     THEN /\ priv' = [priv EXCEPT ![Group(t)].stop = TRUE]
          /\ th' = [th EXCEPT ![t].pc = "cancel"]
     ELSE /\ priv' = priv
          /\ th' = [th EXCEPT ![t].pc = "tfinish"]
  /\ UNCHANGED <<glcCancel, inStream, prodIdx, buf, faults, inLog, sinkLog, intrAt, failedAt, restT>>

\* the first thread out forgets to wake the threads blocked on the input buffer
CancelBuffersNotFrom(t) ==
  /\ th[t].pc = "cancel"
  /\ buf' = IF glcCancel /\ GLC_THREAD_WRITE \in ThreadFlags(Group(t))
            THEN [buf EXCEPT ![ToBuf(Group(t))] = PsBufferCancel(@)]
            ELSE buf
  /\ th' = [th EXCEPT ![t].pc = "tfinish"]
  /\ UNCHANGED <<glcCancel, inStream, prodIdx, priv, faults, inLog, sinkLog, intrAt, failedAt, restT>>

\* thread.c:314-320: ps_buffer_cancel(private->from), and ps_buffer_cancel(
\* private->to) if CANCEL is set and the group writes
CancelBuffers(t) ==
  LET g == Group(t)
      b1 == [buf EXCEPT ![FromBuf(g)] = PsBufferCancel(@)]
  IN
  /\ th[t].pc = "cancel"
  /\ buf' = IF glcCancel /\ GLC_THREAD_WRITE \in ThreadFlags(g)
            THEN [b1 EXCEPT ![ToBuf(g)] = PsBufferCancel(@)]
            ELSE b1
  /\ th' = [th EXCEPT ![t].pc = "tfinish"]
  /\ UNCHANGED <<glcCancel, inStream, prodIdx, priv, faults, inLog, sinkLog, intrAt, failedAt, restT>>

\* thread.c:323-346: thread finish callback, running_threads--, finish callback
ThreadFinish(t) ==
  /\ th[t].pc = "tfinish"
  /\ priv' = [priv EXCEPT
                ![Group(t)].running_threads = @ - 1,
                ![Group(t)].ret = IF th[t].ret # "OK" THEN th[t].ret ELSE @,
                ![Group(t)].finish_calls =
                   IF priv[Group(t)].running_threads - 1 > 0 THEN @ ELSE @ + 1]
  /\ th' = [th EXCEPT ![t] = [InitThread EXCEPT !.pc = "done", !.ret = th[t].ret]]
  /\ UNCHANGED <<glcCancel, inStream, prodIdx, buf, faults, inLog, sinkLog, intrAt, failedAt, restT>>

ThreadStep(t) ==
  \/ LockOpen(t)
  \/ ReadOpen(t)
  \/ ReadCallbacks(t)
  \/ WriteOpen(t)
  \/ WriteSetSize(t)
  \/ WriteData(t)
  \/ ReadClose(t)
  \/ WriteClose(t)
  \/ CloseCallback(t)
  \/ ErrPath(t)
  \/ FinishWake(t)
  \/ CancelBuffers(t)
  \/ ThreadFinish(t)

TNext == Produce \/ \E t \in Threads : ThreadStep(t)

(***************************************************************************)
(* The ALSA capture source: one device, its capture thread, the thread     *)
(* that calls alsa_capture_start(), alsa_capture_stop() and                *)
(* alsa_capture_destroy(), and the sound device itself.                    *)
(***************************************************************************)
MaxCalls == 3          \* start and stop calls made
MaxPeriods == 4        \* periods the device captures
MaxIds == 2            \* audio streams allocated before this one

min_periods == 2       \* periods the device ring holds before it overruns

GLC_MESSAGE_AUDIO_FORMAT == "AUDIO_FORMAT"
GLC_MESSAGE_AUDIO_DATA == "AUDIO_DATA"

\* ALSA: snd_pcm_start() succeeds on a prepared PCM only
snd_pcm_start(p) ==
  IF p = "PREPARED" THEN [ret |-> "OK", pcm |-> "RUNNING"]
  ELSE [ret |-> "EBADFD", pcm |-> p]

\* ALSA: snd_pcm_prepare() on a configured PCM
snd_pcm_prepare(p) ==
  IF p \in {"NONE", "OPEN"} THEN [ret |-> "EBADFD", pcm |-> p]
  ELSE [ret |-> "OK", pcm |-> "PREPARED"]

\* ALSA: snd_pcm_drop() stops the PCM and discards what is pending
snd_pcm_drop(p) ==
  IF p \in {"NONE", "OPEN"} THEN [ret |-> "EBADFD", pcm |-> p]
  ELSE [ret |-> "OK", pcm |-> "SETUP"]

\* what poll() reports for the PCM descriptors
PcmEvent ==
  IF pcm = "RUNNING" THEN (IF avail >= 1 THEN "IN" ELSE "NONE")
  ELSE IF pcm = "PREPARED" THEN "NONE"
  ELSE "ERR"

alsa_capture_pcm_error(p) ==
  CASE p = "XRUN" -> "EPIPE"
    [] p = "RUNNING" -> "OK"
    [] OTHER -> "EIO"

\* a recovery that gives up on the overrun instead of restarting the PCM
alsa_capture_xrun_fatal(err, p) ==
  [ret |-> err, pcm |-> p]

\* alsa_capture_xrun(): what it returns (the caller negates it) and the PCM
alsa_capture_xrun(err, p) ==
  IF err = "EPIPE"
  THEN LET pr == snd_pcm_prepare(p) IN
       IF pr.ret # "OK" THEN pr ELSE snd_pcm_start(pr.pcm)
  ELSE [ret |-> err, pcm |-> p]

AInit ==
  /\ ac \in {[skip_data |-> TRUE, stop_capture |-> FALSE, nfds |-> 0,
              running |-> FALSE, id |-> i] : i \in 1..MaxIds}
  /\ apc = "none"
  /\ cpc = "idle"
  /\ pipe = 0
  /\ pcm = "NONE"
  /\ avail = 0
  /\ revents = [pipe |-> FALSE, pcm |-> "NONE"]
  /\ abuf = <<>>
  /\ abufCancelled = FALSE
  /\ hist = [calls |-> 0, periods |-> 0, read |-> 0,
             epipe |-> 0, needDrop |-> FALSE, openFailed |-> FALSE,
             starts |-> 0, startAt |-> 0, epipeAt |-> 0]

\* the thread is in the Running state of its loop
Running == apc \in {"poll", "check", "process", "read", "prepare"}
           /\ pcm = "RUNNING" /\ ac.nfds > 1

\* alsa_capture_start(), up to the assignment of skip_data
Start ==
  /\ cpc = "idle" /\ hist.calls < MaxCalls
  /\ apc' = IF ac.running THEN apc ELSE "open"
  /\ IF ac.skip_data
     THEN /\ ac' = [ac EXCEPT !.running = TRUE, !.skip_data = FALSE]
          /\ cpc' = "start_write"
     ELSE /\ ac' = [ac EXCEPT !.running = TRUE]
          /\ cpc' = "idle"
  /\ hist' = [hist EXCEPT !.calls = @ + 1, !.needDrop = FALSE,
                          !.starts = IF ac.skip_data THEN @ + 1 ELSE @,
                          !.startAt = IF ac.skip_data THEN Len(abuf) ELSE @]
  /\ UNCHANGED <<pipe, pcm, avail, revents, abuf, abufCancelled, restA>>

\* alsa_capture_stop(), up to the assignment of skip_data
Stop ==
  /\ cpc = "idle" /\ hist.calls < MaxCalls
  /\ IF ~ac.skip_data
     THEN /\ ac' = [ac EXCEPT !.skip_data = TRUE]
          /\ cpc' = "stop_write"
          /\ hist' = [hist EXCEPT !.calls = @ + 1, !.needDrop = Running]
     ELSE /\ cpc' = "idle"
          /\ ac' = ac
          /\ hist' = [hist EXCEPT !.calls = @ + 1]
  /\ UNCHANGED <<apc, pipe, pcm, avail, revents, abuf, abufCancelled, restA>>

\* the write of the interrupt byte that ends start and stop
WriteInterrupt ==
  /\ cpc \in {"start_write", "stop_write"}
  /\ pipe' = pipe + 1
  /\ cpc' = "idle"
  /\ UNCHANGED <<ac, apc, pcm, avail, revents, abuf, abufCancelled, hist, restA>>

\* alsa_capture_destroy(): stop_capture, the interrupt byte, then the join
Destroy ==
  /\ cpc = "idle"
  /\ ac' = [ac EXCEPT !.stop_capture = TRUE]
  /\ IF ac.running
     THEN pipe' = pipe + 1 /\ cpc' = "join"
     ELSE pipe' = pipe /\ cpc' = "destroyed"
  /\ UNCHANGED <<apc, pcm, avail, revents, abuf, abufCancelled, hist, restA>>

Join ==
  /\ cpc = "join" /\ apc = "done"
  /\ cpc' = "destroyed"
  /\ ac' = [ac EXCEPT !.running = FALSE]
  /\ UNCHANGED <<apc, pipe, pcm, avail, revents, abuf, abufCancelled, hist, restA>>

\* the device captures one more period, or overruns when its ring is full
DevicePeriod ==
  /\ pcm = "RUNNING" /\ hist.periods < MaxPeriods
  /\ IF avail < min_periods
     THEN avail' = avail + 1 /\ pcm' = pcm
     ELSE avail' = avail /\ pcm' = "XRUN"
  /\ hist' = [hist EXCEPT !.periods = @ + 1]
  /\ UNCHANGED <<ac, apc, cpc, pipe, revents, abuf, abufCancelled, restA>>

\* the consumer side cancels the target buffer
TargetCancel ==
  /\ ~abufCancelled /\ apc # "none"
  /\ abufCancelled' = TRUE
  /\ UNCHANGED <<ac, apc, cpc, pipe, pcm, avail, revents, abuf, hist, restA>>

AudioFormatPkt == [type |-> GLC_MESSAGE_AUDIO_FORMAT, id |-> ac.id]
AudioDataPkt == [type |-> GLC_MESSAGE_AUDIO_DATA, id |-> ac.id]

\* an open that configures the device and announces nothing
OpenPacketsNone(cancelled) == <<>>

\* the packets alsa_capture_open() publishes once the device is configured
OpenPackets(cancelled) ==
  IF cancelled THEN <<>> ELSE <<AudioFormatPkt>>

\* alsa_capture_open() and alsa_capture_init_fds(); a failed open returns a
\* positive code, which the thread's test for a negative one lets through
AOpen ==
  /\ apc = "open"
  /\ \E res \in {"PREPARED", "OPEN", "NONE"} :
       /\ pcm' = res
       /\ abuf' = IF res = "PREPARED" THEN abuf \o OpenPackets(abufCancelled) ELSE abuf
       /\ hist' = [hist EXCEPT !.openFailed = (res # "PREPARED")]
  /\ ac' = [ac EXCEPT !.nfds = 1]
  /\ apc' = "poll"
  /\ UNCHANGED <<cpc, pipe, avail, revents, abufCancelled, restA>>

\* poll() on the interrupt pipe and, when nfds > 1, the PCM descriptors
APoll ==
  /\ apc = "poll"
  /\ pipe > 0 \/ (ac.nfds > 1 /\ PcmEvent # "NONE")
  /\ revents' = [pipe |-> pipe > 0,
                 pcm |-> IF ac.nfds > 1 THEN PcmEvent ELSE "NONE"]
  /\ apc' = "check"
  /\ UNCHANGED <<ac, cpc, pipe, pcm, avail, abuf, abufCancelled, hist, restA>>

\* alsa_capture_check_state() after the pipe is emptied: its return value,
\* the PCM afterwards, whether it set stop_capture, whether it dropped
CheckState ==
  IF ac.stop_capture THEN [ret |-> 1, pcm |-> pcm, stop |-> FALSE, dropped |-> FALSE]
  ELSE IF ac.skip_data
  THEN IF ac.nfds > 1
       THEN LET d == snd_pcm_drop(pcm)
                p == snd_pcm_prepare(d.pcm) IN
            IF d.ret # "OK" THEN [ret |-> -1, pcm |-> d.pcm, stop |-> TRUE, dropped |-> FALSE]
            ELSE IF p.ret # "OK" THEN [ret |-> -1, pcm |-> p.pcm, stop |-> TRUE, dropped |-> TRUE]
            ELSE [ret |-> 1, pcm |-> p.pcm, stop |-> FALSE, dropped |-> TRUE]
       ELSE [ret |-> 0, pcm |-> pcm, stop |-> FALSE, dropped |-> FALSE]
  ELSE IF ac.nfds = 1
  THEN LET s == snd_pcm_start(pcm) IN
       IF s.ret = "OK" THEN [ret |-> 1, pcm |-> s.pcm, stop |-> FALSE, dropped |-> FALSE]
       ELSE [ret |-> -1, pcm |-> pcm, stop |-> TRUE, dropped |-> FALSE]
  ELSE [ret |-> 0, pcm |-> pcm, stop |-> FALSE, dropped |-> FALSE]

\* alsa_capture_check_state() and the branch the loop takes on its result
ACheck ==
  /\ apc = "check"
  /\ pipe' = IF revents.pipe THEN 0 ELSE pipe
  /\ LET c == CheckState IN
       /\ pcm' = c.pcm
       /\ avail' = IF c.dropped THEN 0 ELSE avail
       /\ ac' = [ac EXCEPT !.stop_capture = @ \/ c.stop]
       /\ hist' = [hist EXCEPT !.needDrop = @ /\ ~c.dropped]
       /\ apc' = IF c.ret # 0 THEN "prepare"
                 ELSE IF ac.nfds > 1 THEN "process" ELSE "prepare"
  /\ UNCHANGED <<cpc, revents, abuf, abufCancelled, restA>>

\* the loop condition and alsa_capture_prepare_fds()
APrepare ==
  /\ apc = "prepare"
  /\ IF ac.stop_capture
     THEN apc' = "end" /\ ac' = ac
     ELSE /\ apc' = "poll"
          /\ ac' = [ac EXCEPT !.nfds = IF ~ac.skip_data THEN 2 ELSE 1]
  /\ UNCHANGED <<cpc, pipe, pcm, avail, revents, abuf, abufCancelled, hist, restA>>

\* alsa_capture_process_pcm() up to the packet it opens for the period
AProcess ==
  /\ apc = "process"
  /\ IF revents.pcm = "NONE"
     THEN apc' = "prepare" /\ pcm' = pcm /\ avail' = avail
     ELSE IF revents.pcm = "ERR" \/ pcm # "RUNNING"
     THEN LET x == alsa_capture_xrun(alsa_capture_pcm_error(pcm), pcm) IN
            /\ pcm' = x.pcm
            /\ avail' = IF x.pcm # pcm THEN 0 ELSE avail
            /\ apc' = IF x.ret = "OK" THEN "prepare" ELSE "end"
     ELSE /\ pcm' = pcm /\ avail' = avail
          /\ apc' = IF abufCancelled THEN "end" ELSE "read"
  /\ UNCHANGED <<ac, cpc, pipe, revents, abuf, abufCancelled, hist, restA>>

\* alsa_capture_read_pcm() and what process_pcm() does with its result
AReadPcm ==
  /\ apc = "read"
  /\ IF pcm = "XRUN"
     THEN LET x == alsa_capture_xrun("EPIPE", pcm) IN
            /\ pcm' = x.pcm
            /\ avail' = 0
            /\ hist' = [hist EXCEPT !.epipe = @ + 1, !.epipeAt = Len(abuf)]
            /\ abuf' = abuf
            /\ apc' = IF x.ret = "OK" /\ ~abufCancelled THEN "prepare" ELSE "end"
     ELSE /\ pcm' = pcm
          /\ avail' = avail - 1
          /\ hist' = [hist EXCEPT !.read = @ + 1]
          /\ IF abufCancelled
             THEN abuf' = abuf /\ apc' = "end"
             ELSE abuf' = Append(abuf, AudioDataPkt) /\ apc' = "prepare"
  /\ UNCHANGED <<ac, cpc, pipe, revents, abufCancelled, restA>>

\* the end label: the descriptors are freed and the PCM closed
AEnd ==
  /\ apc = "end"
  /\ apc' = "done"
  /\ pcm' = "NONE"
  /\ avail' = 0
  /\ UNCHANGED <<ac, cpc, pipe, revents, abuf, abufCancelled, hist, restA>>

alsa_capture_thread == AOpen \/ APoll \/ ACheck \/ APrepare \/ AProcess \/ AReadPcm \/ AEnd

ANext ==
  \/ Start
  \/ Stop
  \/ WriteInterrupt
  \/ Destroy
  \/ Join
  \/ DevicePeriod
  \/ TargetCancel
  \/ AOpen
  \/ APoll
  \/ ACheck
  \/ APrepare
  \/ AProcess
  \/ AReadPcm
  \/ AEnd

\* the worker groups on their own; the capture source is never started

(***************************************************************************)
(* The state time.  glc_state_time() is the clock minus time_difference;   *)
(* starting a capture advances time_difference by the time spent stopped,  *)
(* and opening a stream file resets it to the clock.                       *)
(***************************************************************************)
MaxClock == 4          \* ticks of the clock
MaxDelay == 2          \* delay_nsec of the device, in ticks
MaxReloads == 1        \* reload requests made

KInit ==
  /\ clk = 0
  /\ tm \in {[time_difference |-> 0, stop_time |-> 0, capturing |-> FALSE,
              pending |-> 0, reloads |-> 0, delay_nsec |-> d,
              starting |-> FALSE, diff |-> 0, resetting |-> FALSE] : d \in 0..MaxDelay}
  /\ stamps = <<>>

\* state.c:163-166
glc_state_time == clk - tm.time_difference

Tick ==
  /\ clk < MaxClock
  /\ clk' = clk + 1
  /\ UNCHANGED <<tm, stamps, restK>>

\* main.c:415-431 start_capture_impl(): the argument of
\* glc_state_time_add_diff(), the state time minus stop_time, is computed
\* before the call takes time_rwlock
StartCapture ==
  /\ ~tm.capturing /\ ~tm.starting
  /\ tm' = [tm EXCEPT !.diff = glc_state_time - tm.stop_time, !.starting = TRUE]
  /\ UNCHANGED <<clk, stamps, restK>>

\* state.c:175-182 glc_state_time_add_diff() under time_rwlock, and the rest
\* of start_capture_impl() (main.c:433-439)
StartAddDiff ==
  /\ tm.starting
  /\ tm' = [tm EXCEPT !.time_difference = @ + tm.diff, !.starting = FALSE,
                      !.capturing = TRUE]
  /\ UNCHANGED <<clk, stamps, restK>>

\* main.c:452-474 stop_capture(): stop_time is the state time at the stop
StopCapture ==
  /\ tm.capturing
  /\ tm' = [tm EXCEPT !.capturing = FALSE, !.stop_time = glc_state_time]
  /\ UNCHANGED <<clk, stamps, restK>>

\* main.c:393-403 reload_capture(): the request is queued for the sink
ReloadCapture ==
  /\ tm.reloads < MaxReloads
  /\ tm' = [tm EXCEPT !.pending = @ + 1, !.reloads = @ + 1]
  /\ UNCHANGED <<clk, stamps, restK>>

\* main.c:279-304 open_stream(), run by the sink thread for a reload
\* request without capture_action_lock: glc_state_time_reset()
\* (state.c:168-173)
ReloadOpenStream ==
  /\ tm.pending > 0 /\ ~tm.resetting
  /\ tm' = [tm EXCEPT !.time_difference = clk, !.resetting = TRUE]
  /\ UNCHANGED <<clk, stamps, restK>>

\* main.c:305 open_stream(): stop_time = 0
OpenStreamStopTime ==
  /\ tm.resetting
  /\ tm' = [tm EXCEPT !.pending = @ - 1, !.stop_time = 0, !.resetting = FALSE]
  /\ UNCHANGED <<clk, stamps, restK>>

\* alsa_capture.c:589-592: hdr.time of a period read at state time t
AudioTime(t, delay) == IF delay <= t THEN t - delay ELSE t

\* alsa_capture_process_pcm() stamps the period it publishes
CaptureAudio ==
  /\ tm.capturing
  /\ Len(stamps) < MaxClock
  /\ stamps' = Append(stamps, AudioTime(glc_state_time, tm.delay_nsec))
  /\ UNCHANGED <<clk, tm, restK>>

KNext ==
  \/ Tick
  \/ StartCapture
  \/ StartAddDiff
  \/ StopCapture
  \/ ReloadCapture
  \/ ReloadOpenStream
  \/ OpenStreamStopTime
  \/ CaptureAudio

(***************************************************************************)
(* Compression stage and file container: pack.c, file.c                    *)
(***************************************************************************)

MaxMsgs == 2       \* packets before the CLOSE

compress_min == 1024   \* pack.c:119
HdrSize == 10          \* { size : u64, header : 2 B }

GLC_MESSAGE_CLOSE == "CLOSE"
GLC_MESSAGE_VIDEO_FRAME == "VIDEO_FRAME"
GLC_MESSAGE_COLOR == "COLOR"
GLC_MESSAGE_CONTAINER == "CONTAINER"
GLC_MESSAGE_LZO == "LZO"
GLC_MESSAGE_QUICKLZ == "QUICKLZ"
GLC_MESSAGE_LZJB == "LZJB"

Algorithms == {GLC_MESSAGE_LZO, GLC_MESSAGE_QUICKLZ, GLC_MESSAGE_LZJB}
Versions == {3, 4, 5}

\* A message: the header type, the payload size, and the payload.  The payload
\* of a VIDEO_FRAME or AUDIO_DATA is its time field and its data.  alg says
\* which algorithm the payload bytes are compressed with; usize and utype are
\* the wrapper header (size and header of the original message); ctype and
\* csize are the container header of a CONTAINER.
PlainMsg(t, n, tm0, d) ==
  [type |-> t, size |-> n, time |-> tm0, data |-> d, alg |-> "none",
   usize |-> 0, utype |-> "none", ctype |-> "none", csize |-> 0]

CloseMsg == PlainMsg(GLC_MESSAGE_CLOSE, 0, 0, 0)

\* the size the compressor returns for n bytes
compressed_size(n) == (n \div 2) + 1

\* pack.c:52,65 and the reservation the read callback makes
worstcase(a, n) ==
  IF a = GLC_MESSAGE_QUICKLZ THEN n + 400 ELSE n + (n \div 16) + 64 + 3

\* pack.c:259-302 pack_read_callback(): compress only audio and pictures
\* above compress_min
PackCompresses(p) ==
  /\ p.size > compress_min
  /\ p.type \in {GLC_MESSAGE_VIDEO_FRAME, GLC_MESSAGE_AUDIO_DATA}

\* the header pack stores in the wrapper: it is the header as pack read it
PackWrapperKeepsNoHeader(p) == GLC_MESSAGE_CONTAINER

\* pack.c:317, 350, 382: memcpy(&xxx_header->header, &state->header)
PackWrapperHeader(p) == p.type

\* pack.c:304-393 pack_{lzo,quicklz,lzjb}_write_callback(): the packet becomes
\* a CONTAINER around a message of the algorithm's type
pack_write_callback(p, a) ==
  [type |-> GLC_MESSAGE_CONTAINER,
   size |-> HdrSize + HdrSize + worstcase(a, p.size),
   time |-> p.time, data |-> p.data, alg |-> a,
   usize |-> p.size, utype |-> PackWrapperHeader(p),
   ctype |-> a, csize |-> compressed_size(p.size) + HdrSize]

\* one iteration of the pack thread
pack(p, a) == IF PackCompresses(p) THEN pack_write_callback(p, a) ELSE p

\* the message a container header and the csize bytes after it are on disk
ContainerMessage(c) ==
  [type |-> c.ctype, size |-> c.csize, time |-> c.time, data |-> c.data,
   alg |-> c.alg, usize |-> c.usize, utype |-> c.utype,
   ctype |-> "none", csize |-> 0]

\* the decompressor of algorithm a applied to the payload of wrapper m
Decompress(a, m) ==
  IF m.alg = a THEN [time |-> m.time, data |-> m.data]
  ELSE [time |-> -1, data |-> -1]

\* pack.c:458-543 unpack_read_callback(), unpack_write_callback(): a message
\* of an algorithm's type is replaced by the message it wraps, every other
\* message is copied
unpack(m) ==
  IF m.type \in Algorithms
  THEN LET raw == Decompress(m.type, m)
       IN  PlainMsg(m.utype, m.usize, raw.time, raw.data)
  ELSE m

\* the packets the stages are fed
InputPackets ==
  {PlainMsg(GLC_MESSAGE_VIDEO_FRAME, n, 2, 1) : n \in {compress_min, compress_min + 1}}
  \cup {PlainMsg(GLC_MESSAGE_AUDIO_DATA, compress_min + 1, 3, 2),
        PlainMsg(GLC_MESSAGE_AUDIO_FORMAT, compress_min + 1, 0, 3),
        [PlainMsg(GLC_MESSAGE_CONTAINER, HdrSize + 4, 0, 4)
           EXCEPT !.ctype = GLC_MESSAGE_COLOR, !.csize = 4],
        [PlainMsg(GLC_MESSAGE_LZO, HdrSize + 8, 3, 5)
           EXCEPT !.alg = GLC_MESSAGE_LZO, !.usize = 16,
                  !.utype = GLC_MESSAGE_AUDIO_DATA]}

InputStreams ==
  UNION {[1..n -> InputPackets] : n \in 1..MaxMsgs}

CInit ==
  /\ orig \in {Append(s, CloseMsg) : s \in InputStreams}
  /\ compression \in Algorithms
  /\ stream_version \in Versions
  /\ stage = "pack"
  /\ packed = <<>>
  /\ direct = <<>>
  /\ disk = <<>>
  /\ eofCut = FALSE
  /\ rpos = 1
  /\ src = <<>>
  /\ srcCancelled = FALSE
  /\ out = <<>>

\* the pack thread takes the next packet of its input buffer
PackPacket ==
  /\ stage = "pack"
  /\ LET p == orig[Len(packed) + 1]
     IN  /\ packed' = Append(packed, pack(p, compression))
         /\ stage' = IF p.type = GLC_MESSAGE_CLOSE THEN "direct" ELSE "pack"
  /\ UNCHANGED <<orig, compression, stream_version, direct, disk, eofCut, rpos,
                 src, srcCancelled, out, restC>>

\* an unpack thread that reads the buffer pack writes to
UnpackDirect ==
  /\ stage = "direct"
  /\ LET p == packed[Len(direct) + 1]
     IN  /\ direct' = Append(direct, unpack(p))
         /\ stage' = IF p.type = GLC_MESSAGE_CLOSE THEN "write" ELSE "direct"
  /\ UNCHANGED <<orig, compression, stream_version, packed, disk, eofCut, rpos,
                 src, srcCancelled, out, restC>>

Field(f, m) == [f |-> f, m |-> m]

\* file.c:701-718: version 0x03 stores the header before the size
DiskHeaderFirst(v, m) == <<Field("header", m), Field("size", m)>>

DiskHeader(v, m) ==
  IF v = 3 THEN <<Field("header", m), Field("size", m)>>
  ELSE <<Field("size", m), Field("header", m)>>

DiskMessage(v, m) ==
  DiskHeader(v, m) \o (IF m.size > 0 THEN <<Field("payload", m)>> ELSE <<>>)

\* file.c:479-528 file_read_callback(): a CONTAINER is written as it is, its
\* container header and container->size bytes; any other message is written
\* as { size, header, payload }
file_read_callback(v, p) ==
  IF p.type = GLC_MESSAGE_CONTAINER THEN DiskMessage(v, ContainerMessage(p))
  ELSE DiskMessage(v, p)

\* the sink thread writes the next packet; a file of an earlier version holds
\* the messages in that version's layout
FileWrite ==
  /\ stage = "write"
  /\ \E k \in 1..Len(packed) :
       /\ k = 1 + Cardinality({i \in 1..Len(disk) : disk[i].f = "size"})
       /\ disk' = disk \o file_read_callback(stream_version, packed[k])
       /\ stage' = IF packed[k].type = GLC_MESSAGE_CLOSE THEN "read" ELSE "write"
  /\ UNCHANGED <<orig, compression, stream_version, packed, direct, eofCut, rpos,
                 src, srcCancelled, out, restC>>

\* the file ends early: after k whole fields, or inside the field after them
Truncate ==
  /\ stage = "read" /\ rpos = 1 /\ src = <<>> /\ ~eofCut /\ ~srcCancelled
  /\ \E k \in 0..(Len(disk) - 1), inside \in BOOLEAN :
       disk' = SubSeq(disk, 1, k)
                 \o (IF inside THEN <<Field("part", disk[k + 1].m)>> ELSE <<>>)
  /\ eofCut' = TRUE
  /\ UNCHANGED <<orig, compression, stream_version, stage, packed, direct, rpos,
                 src, srcCancelled, out, restC>>

\* fread() returns the whole field at position i
Fread(i) == i <= Len(disk) /\ disk[i].f # "part"

\* file.c:731-744: files older than 0x05 count time in microseconds
FileReadTime(v, m) ==
  IF v < 5 /\ m.type \in {GLC_MESSAGE_VIDEO_FRAME, GLC_MESSAGE_AUDIO_DATA}
  THEN [m EXCEPT !.time = @ * 1000]
  ELSE m

\* file.c:701-718: the size and the header file_read() takes from the two
\* fields at the read position, in the order of the file's version
ReadSize(v) ==
  LET fld == disk[IF v = 3 THEN rpos + 1 ELSE rpos]
  IN  IF fld.f = "size" THEN fld.m.size ELSE -1

ReadHeader(v) ==
  LET fld == disk[IF v = 3 THEN rpos ELSE rpos + 1]
  IN  IF fld.f = "header" THEN fld.m.type ELSE "garbage"

\* file.c:700-757: one iteration of the loop of file_read()
FileReadMessage ==
  /\ stage = "read"
  /\ IF ~(Fread(rpos) /\ Fread(rpos + 1))
     THEN \* send_eof
          /\ src' = Append(src, CloseMsg)
          /\ stage' = "unpack"
          /\ UNCHANGED <<rpos, srcCancelled>>
     ELSE LET glc_ps == ReadSize(stream_version)
              type == ReadHeader(stream_version)
          IN  IF glc_ps > 0 /\ ~Fread(rpos + 2)
              THEN \* read_fail: EBADMSG, ps_buffer_cancel(to)
                   /\ srcCancelled' = TRUE
                   /\ stage' = "unpack"
                   /\ UNCHANGED <<rpos, src>>
              ELSE LET m == IF glc_ps > 0
                            THEN [disk[rpos + 2].m EXCEPT !.type = type, !.size = glc_ps]
                            ELSE PlainMsg(type, 0, 0, 0)
                   IN  /\ src' = Append(src, FileReadTime(stream_version, m))
                       /\ rpos' = rpos + (IF glc_ps > 0 THEN 3 ELSE 2)
                       /\ stage' = IF type = GLC_MESSAGE_CLOSE THEN "unpack" ELSE "read"
                       /\ UNCHANGED srcCancelled
  /\ UNCHANGED <<orig, compression, stream_version, packed, direct, disk, eofCut,
                 out, restC>>

\* the unpack thread takes the next packet the file source published
UnpackMessage ==
  /\ stage = "unpack"
  /\ IF Len(out) < Len(src)
     THEN LET m == src[Len(out) + 1]
          IN  /\ out' = Append(out, unpack(m))
              /\ stage' = IF m.type = GLC_MESSAGE_CLOSE THEN "done" ELSE "unpack"
     ELSE /\ stage' = "done"
          /\ UNCHANGED out
  /\ UNCHANGED <<orig, compression, stream_version, packed, direct, disk, eofCut,
                 rpos, src, srcCancelled, restC>>

CNext ==
  \/ PackPacket
  \/ UnpackDirect
  \/ FileWrite
  \/ Truncate
  \/ FileReadMessage
  \/ UnpackMessage

(***************************************************************************)
(* The sinks and their write thread: file.c, pipe.c, main.c                *)
(***************************************************************************)

MaxSinkMsgs == 5     \* packets fed to the sink
SinkCap == 2         \* packets the input buffer holds
MaxIoFaults == 1     \* failing I/O calls
MaxFormat == 2       \* successive VIDEO_FORMATs of stream 1

SINK_CB_RELOAD_ARG == 1   \* main.c:62
SINK_CB_STOP_ARG == 2     \* main.c:63

GLC_MESSAGE_VIDEO_FORMAT == "VIDEO_FORMAT"
GLC_CALLBACK_REQUEST == "CALLBACK_REQUEST"

FILE_WRITING == "WRITING"
FILE_RUNNING == "RUNNING"
FILE_INFO_WRITTEN == "INFO_WRITTEN"

VideoIds == {1}
AudioIds == {1}

\* a message: type, stream id, and v: the revision of a format or colour, or
\* the argument of a callback request
Msg(t, i, v) == [type |-> t, id |-> i, v |-> v]

FormatTypes ==
  {GLC_MESSAGE_VIDEO_FORMAT, GLC_MESSAGE_AUDIO_FORMAT, GLC_MESSAGE_COLOR}

\* the state tracker: the last *_FORMAT and COLOR message of every stream id
tracker_submit(tr, m) ==
  IF m.type \in FormatTypes
  THEN {q \in tr : ~(q.type = m.type /\ q.id = m.id)} \cup {m}
  ELSE tr

TrackerKeys ==
  <<<<GLC_MESSAGE_VIDEO_FORMAT, 1>>, <<GLC_MESSAGE_AUDIO_FORMAT, 1>>,
    <<GLC_MESSAGE_COLOR, 1>>>>

RECURSIVE TrackerFrom(_, _)
TrackerFrom(tr, k) ==
  IF k > Len(TrackerKeys) THEN <<>>
  ELSE LET here == {q \in tr : q.type = TrackerKeys[k][1] /\ q.id = TrackerKeys[k][2]}
       IN  (IF here = {} THEN <<>> ELSE <<CHOOSE q \in here : TRUE>>)
             \o TrackerFrom(tr, k + 1)

\* the messages tracker_iterate_state() hands to its callback
tracker_iterate_state(tr) == TrackerFrom(tr, 1)

\* file.c:303-307
is_write_open_not_running(s) ==
  /\ s.handle # 0
  /\ FILE_WRITING \in s.flags
  /\ FILE_RUNNING \notin s.flags

\* an I/O call of the sink may fail
IoFails(s) == IF s.faults < MaxIoFaults THEN {FALSE, TRUE} ELSE {FALSE}
Failed(s) == [s EXCEPT !.faults = @ + 1]

\* the result of a sink operation: its return value and the sink afterwards
Ret(r, s) == [ret |-> r, sink |-> s]

\* the operations that follow a successful one
Then(results, Op(_)) ==
  UNION {IF r.ret = "OK" THEN Op(r.sink) ELSE {r} : r \in results}

\* file.c:356-378 file_write_message() on the open target
file_write_message(s, m) ==
  [s EXCEPT !.files[s.handle].msgs = Append(@, m)]

\* file.c:380-401
file_write_eof(s) ==
  IF ~is_write_open_not_running(s) THEN {Ret("EAGAIN", s)}
  ELSE {IF bad THEN Ret("EIO", Failed(s))
        ELSE Ret("OK", file_write_message(s, Msg(GLC_MESSAGE_CLOSE, 0, 0)))
          : bad \in IoFails(s)}

\* close_target that leaves the flags of the closed target
file_close_target_keeps_flags(s) ==
  IF ~is_write_open_not_running(s) THEN {Ret("EAGAIN", s)}
  ELSE {Ret("OK", [s EXCEPT !.handle = 0])}

\* file.c:309-324
file_close_target(s) ==
  IF ~is_write_open_not_running(s) THEN {Ret("EAGAIN", s)}
  ELSE {Ret("OK", [s EXCEPT !.handle = 0,
                         !.flags = @ \ {FILE_WRITING, FILE_INFO_WRITTEN}])}

\* file.c:219-301 file_open_target(), file_set_target()
file_open_target(s) ==
  IF s.handle # 0 THEN {Ret("EBUSY", s)}
  ELSE {IF bad THEN Ret("EIO", Failed(s))
        ELSE Ret("OK", [s EXCEPT !.files = Append(@, [info |-> FALSE, msgs |-> <<>>, replayed |-> FALSE]),
                              !.handle = Len(s.files) + 1,
                              !.flags = @ \cup {FILE_WRITING}])
          : bad \in IoFails(s)}

\* file.c:326-354
file_write_info(s) ==
  IF ~is_write_open_not_running(s) THEN {Ret("EAGAIN", s)}
  ELSE {IF bad THEN Ret("EIO", Failed(s))
        ELSE Ret("OK", [s EXCEPT !.files[s.handle].info = TRUE,
                              !.flags = @ \cup {FILE_INFO_WRITTEN}])
          : bad \in IoFails(s)}

RECURSIVE WriteAll(_, _)
WriteAll(s, ms) ==
  IF ms = <<>> THEN s ELSE WriteAll(file_write_message(s, Head(ms)), Tail(ms))

\* write_state that replays nothing
file_write_state_nothing(s) ==
  IF ~is_write_open_not_running(s) THEN {Ret("EAGAIN", s)}
  ELSE {Ret("OK", [s EXCEPT !.files[s.handle].replayed = TRUE])}

\* file.c:405-436: every tracked message is written; the first failing write
\* ends the iteration
file_write_state(s) ==
  IF ~is_write_open_not_running(s) THEN {Ret("EAGAIN", s)}
  ELSE LET ms == tracker_iterate_state(s.tracker)
       IN  {Ret("OK", [WriteAll(s, ms) EXCEPT !.files[s.handle].replayed = TRUE])}
           \cup {Ret("EIO", Failed(WriteAll(s, SubSeq(ms, 1, n))))
                   : n \in {k \in 0..(Len(ms) - 1) : TRUE \in IoFails(s)}}

\* pipe.c:648-652
pipe_is_write_open_not_running(s) ==
  FILE_WRITING \in s.flags /\ FILE_RUNNING \notin s.flags

\* pipe.c:600-641 close_pipe(): the write end is closed and the child reaped
close_pipe(s) ==
  IF s.w_pipefd = 0 THEN s
  ELSE [s EXCEPT !.children[s.w_pipefd].closed = TRUE, !.w_pipefd = 0]

\* pipe.c:587-593, 654-700: the target operations of the pipe sink
pipe_open_target(s) == {Ret("OK", [s EXCEPT !.flags = @ \cup {FILE_WRITING}])}

pipe_close_target(s) ==
  IF ~pipe_is_write_open_not_running(s) THEN {Ret("EAGAIN", s)}
  ELSE {Ret("OK", [s EXCEPT !.flags = @ \ {FILE_WRITING, FILE_INFO_WRITTEN}])}

pipe_write_info(s) ==
  IF ~pipe_is_write_open_not_running(s) THEN {Ret("EAGAIN", s)}
  ELSE {Ret("OK", [s EXCEPT !.flags = @ \cup {FILE_INFO_WRITTEN}])}

pipe_write_eof(s) ==
  IF ~pipe_is_write_open_not_running(s) THEN {Ret("EAGAIN", s)}
  ELSE {Ret("OK", close_pipe(s))}

pipe_write_state(s) ==
  IF ~pipe_is_write_open_not_running(s) THEN {Ret("EAGAIN", s)}
  ELSE {Ret("OK", s)}

\* sink.h: the operations of the sink at hand
write_eof(s) == IF s.kind = "file" THEN file_write_eof(s) ELSE pipe_write_eof(s)
close_target(s) == IF s.kind = "file" THEN file_close_target(s) ELSE pipe_close_target(s)
open_target(s) == IF s.kind = "file" THEN file_open_target(s) ELSE pipe_open_target(s)
write_info(s) == IF s.kind = "file" THEN file_write_info(s) ELSE pipe_write_info(s)
write_state(s) == IF s.kind = "file" THEN file_write_state(s) ELSE pipe_write_state(s)

\* main.c:279-311 open_stream()
open_stream(s) == Then(open_target(s), write_info)

\* main.c:327-361 stream_sink_callback(): the sinks it may leave behind;
\* calls records the invocations and their arguments
stream_sink_callback(s0, arg) ==
  LET s == [s0 EXCEPT !.calls = Append(@, arg)]
      results ==
        IF arg = SINK_CB_RELOAD_ARG
        THEN Then(Then(Then(write_eof(s), close_target), open_stream),
                  write_state)
        ELSE IF arg = SINK_CB_STOP_ARG THEN write_eof(s)
        ELSE {Ret("OK", s)}
  IN  {r.sink : r \in results}

\* the delays GLC_PIPE_DELAY may ask for, in milliseconds
Delays == {0, 300, 5000}

\* a delay that forgets the width of delay_ns
pipe_delay_ns_unbounded(delay_ms) == delay_ms * 15625

\* pipe.c:65, 169: params.delay_ns = delay_ms*1000000 is an unsigned product,
\* taken modulo 2^32.  The model counts time in units of 64 ns, which divide
\* a millisecond and 2^32 ns: 10^6 = 64 * 15625 and 2^32 = 64 * 2^26
pipe_delay_ns(delay_ms) == (delay_ms * 15625) % (2^26)

SInit ==
  /\ sink \in {[kind |-> c.kind, handle |-> 0, flags |-> {}, files |-> <<>>,
                faults |-> 0, tracker |-> {}, callback |-> TRUE,
                delay_ms |-> c.delay_ms, delay_ns |-> pipe_delay_ns(c.delay_ms),
                w_pipefd |-> 0, id |-> 0, first_frame_ts |-> 0,
                write_frame_ret |-> "OK", children |-> <<>>, calls |-> <<>>]
                 : c \in {[kind |-> "file", delay_ms |-> 0]}
                          \cup [kind : {"pipe"}, delay_ms : Delays]}
  /\ sq = <<>>
  /\ sth = "none"
  /\ slog = [fed |-> 0, closed |-> FALSE, seen |-> <<>>,
             requested |-> <<>>,
             refused |-> FALSE, startInfo |-> <<>>, nullWrite |-> FALSE,
             stops |-> 0, stopsSent |-> 0, lastTime |-> 0]

IsOpen(s) == IF s.kind = "file" THEN s.handle # 0 ELSE FILE_WRITING \in s.flags

\* the sink's client calls open_target (main.c:293)
OpenTarget ==
  /\ sth = "none" /\ ~IsOpen(sink) /\ Len(sink.files) < 2
  /\ \E r \in open_target(sink) : sink' = r.sink
  /\ UNCHANGED <<sq, sth, slog, restS>>

\* the sink's client calls write_info (main.c:295)
WriteInfo ==
  /\ sth = "none" /\ IsOpen(sink) /\ FILE_INFO_WRITTEN \notin sink.flags
  /\ \E r \in write_info(sink) : sink' = r.sink
  /\ UNCHANGED <<sq, sth, slog, restS>>

\* the sink's client calls close_target before the thread is started
CloseTarget ==
  /\ sth = "none" /\ IsOpen(sink)
  /\ \E r \in close_target(sink) : sink' = r.sink
  /\ UNCHANGED <<sq, sth, slog, restS>>

\* file.c:438-453 file_write_process_start(), pipe.c:703-718
\* pipe_write_process_start()
WriteProcessStart ==
  /\ sth = "none"
  /\ LET open == IF sink.kind = "file" THEN is_write_open_not_running(sink)
                 ELSE pipe_is_write_open_not_running(sink)
     IN  IF ~open \/ FILE_INFO_WRITTEN \notin sink.flags
         THEN /\ ~slog.refused
              /\ slog' = [slog EXCEPT !.refused = TRUE]
              /\ UNCHANGED <<sink, sth>>
         ELSE /\ sink' = [sink EXCEPT !.flags = @ \cup {FILE_RUNNING}]
              /\ sth' = "running"
              /\ slog' = [slog EXCEPT !.startInfo =
                            Append(@, IF sink.kind = "file"
                                      THEN sink.files[sink.handle].info ELSE TRUE)]
  /\ UNCHANGED <<sq, restS>>

\* a second video stream, fed to the pipe sink only
OtherVideoIds == {2}

\* the times of the frames, zero and one second, in units of 64 ns
FrameTimes == {0, 1000 * 15625}

\* the packets the capture side may publish next: a stream's format precedes
\* its data, a format is published again only when it changed, and nothing
\* follows the CLOSE
SinkPackets ==
  LET known == sink.tracker \cup {sq[k] : k \in 1..Len(sq)}
      of(t, i) == {q \in known : q.type = t /\ q.id = i}
      revs(t, i) == {q.v : q \in of(t, i)}
      next(t, i) == IF of(t, i) = {} THEN 1
                    ELSE 1 + CHOOSE v \in revs(t, i) : \A w \in revs(t, i) : w <= v
      ids == IF sink.kind = "pipe" THEN VideoIds \cup OtherVideoIds ELSE VideoIds
  IN  {Msg(GLC_MESSAGE_VIDEO_FORMAT, i, next(GLC_MESSAGE_VIDEO_FORMAT, i)) :
         i \in {j \in ids : next(GLC_MESSAGE_VIDEO_FORMAT, j)
                               <= IF j \in VideoIds THEN MaxFormat ELSE 1}}
      \cup {Msg(GLC_MESSAGE_COLOR, i, 1) :
              i \in {j \in VideoIds : of(GLC_MESSAGE_VIDEO_FORMAT, j) # {}
                                        /\ of(GLC_MESSAGE_COLOR, j) = {}}}
      \cup {Msg(GLC_MESSAGE_AUDIO_FORMAT, i, 1) :
              i \in {j \in AudioIds : of(GLC_MESSAGE_AUDIO_FORMAT, j) = {}}}
      \cup {Msg(GLC_MESSAGE_VIDEO_FRAME, i, t) :
              i \in {j \in ids : of(GLC_MESSAGE_VIDEO_FORMAT, j) # {}},
              t \in {u \in FrameTimes : u >= slog.lastTime
                                         /\ (sink.kind = "file" => u = 0)}}
      \cup {Msg(GLC_MESSAGE_AUDIO_DATA, i, 0) :
              i \in {j \in AudioIds : of(GLC_MESSAGE_AUDIO_FORMAT, j) # {}}}
      \cup {Msg(GLC_CALLBACK_REQUEST, 0, arg) :
              arg \in {a \in {SINK_CB_RELOAD_ARG, SINK_CB_STOP_ARG} :
                         /\ Len(slog.requested) + Cardinality({k \in 1..Len(sq) :
                              sq[k].type = GLC_CALLBACK_REQUEST}) < MaxReloads + slog.stopsSent
                         /\ a = SINK_CB_STOP_ARG => sink.kind = "pipe"}}
      \cup {Msg(GLC_MESSAGE_CLOSE, 0, 0)}

\* a packet is published on the sink's input buffer
SinkProduce ==
  /\ sth = "running"
  /\ Len(sq) < SinkCap /\ slog.fed < MaxSinkMsgs /\ ~slog.closed
  /\ \E p \in SinkPackets :
       /\ sq' = Append(sq, p)
       /\ slog' = [slog EXCEPT !.fed = @ + 1,
                               !.closed = (p.type = GLC_MESSAGE_CLOSE),
                               !.lastTime = IF p.type = GLC_MESSAGE_VIDEO_FRAME
                                            THEN p.v ELSE @]
  /\ UNCHANGED <<sink, sth, restS>>

\* file.c:479-528 file_read_callback() on the packet the write thread has
\* dequeued, and the end of the thread's iteration
FileDequeue ==
  /\ sink.kind = "file"
  /\ sth = "running" /\ sq # <<>>
  /\ sq' = Tail(sq)
  /\ LET p == Head(sq)
         s1 == [sink EXCEPT !.tracker = tracker_submit(@, p)]
         seen == Append(slog.seen, p)
     IN  IF p.type = GLC_CALLBACK_REQUEST
         THEN /\ slog' = [slog EXCEPT !.seen = seen,
                                      !.requested = Append(@, p.v)]
              /\ sth' = sth
              /\ IF s1.callback
                 THEN \E s2 \in stream_sink_callback(
                                  [s1 EXCEPT !.flags = @ \ {FILE_RUNNING}], p.v) :
                        sink' = [s2 EXCEPT !.flags = @ \cup {FILE_RUNNING}]
                 ELSE sink' = s1
         ELSE IF s1.handle = 0
         THEN \* fwrite_unlocked() on a NULL stream
              /\ sink' = s1
              /\ slog' = [slog EXCEPT !.seen = seen, !.nullWrite = TRUE]
              /\ sth' \in {"crashed", "failed"}
         ELSE \E bad \in IoFails(s1) :
                IF bad
                THEN /\ sink' = Failed(s1)
                     /\ sth' = "failed"
                     /\ slog' = [slog EXCEPT !.seen = seen]
                ELSE /\ sink' = file_write_message(s1, p)
                     /\ sth' = IF p.type = GLC_MESSAGE_CLOSE THEN "done" ELSE sth
                     /\ slog' = [slog EXCEPT !.seen = seen]
  /\ UNCHANGED restS

\* pipe.c:293-435 open_pipe(): the child is spawned for the stream of the
\* frame at hand
open_pipe(s, p) ==
  {IF bad THEN Ret("EIO", Failed(s))
   ELSE Ret("OK", [s EXCEPT !.children = Append(@, [frames |-> <<>>, closed |-> FALSE,
                                                    fails |-> 0, late |-> FALSE,
                                                    id |-> p.id, time |-> p.v]),
                            !.w_pipefd = Len(s.children) + 1,
                            !.first_frame_ts = p.v + s.delay_ns])
     : bad \in IoFails(s)}

\* pipe.c:437-500 write_video_frame(), wait_pipe(): the frame is accepted by
\* the child, or the write fails for good (EPOLLERR, EPOLLHUP, the time-out,
\* a write error other than EAGAIN and EINTR).  fails counts the failed
\* writes of a child, late tells that a write followed a failed one
write_video_frame(s0, p) ==
  LET w == s0.w_pipefd
      s == [s0 EXCEPT !.children[w].late = @ \/ s0.children[w].fails > 0]
  IN  {IF bad THEN [Failed(s) EXCEPT !.write_frame_ret = "ERR",
                                     !.children[w].fails = @ + 1]
       ELSE [s EXCEPT !.children[w].frames = Append(@, p),
                      !.write_frame_ret = "OK"]
         : bad \in IoFails(s)}

\* a read callback that hands the failure of the write to the thread
pipe_frame_returns_error(s, p) ==
  IF p.v >= s.first_frame_ts
  THEN {Ret(IF w.write_frame_ret = "OK" THEN "OK" ELSE "EIO", w)
          : w \in write_video_frame(s, p)}
  ELSE {Ret("OK", s)}

\* pipe.c:557-561: the frame is written once its time has come; the callback
\* returns 0 whatever the write returned
pipe_frame(s, p) ==
  IF p.v >= s.first_frame_ts
  THEN {Ret("OK", w) : w \in write_video_frame(s, p)}
  ELSE {Ret("OK", s)}

\* a sink that passes the request to the child as if it were a frame
pipe_callback_request_written(s, p) ==
  IF s.w_pipefd = 0 THEN {Ret("OK", s)}
  ELSE {Ret("OK", [s EXCEPT !.children[s.w_pipefd].frames = Append(@, p)])}

\* pipe.c:522-528: the callback runs with PIPE_RUNNING cleared
pipe_callback_request(s, p) ==
  {Ret("OK", [c EXCEPT !.flags = @ \cup {FILE_RUNNING}])
     : c \in stream_sink_callback([s EXCEPT !.flags = @ \ {FILE_RUNNING}], p.v)}

\* pipe.c:514-570 pipe_read_callback()
pipe_read_callback(s, p) ==
  IF p.type = GLC_CALLBACK_REQUEST
  THEN pipe_callback_request(s, p)
  ELSE IF p.type \in {GLC_MESSAGE_VIDEO_FORMAT, GLC_MESSAGE_COLOR}
  THEN {Ret("OK", [s EXCEPT !.tracker = tracker_submit(@, p)])}
  ELSE IF p.type = GLC_MESSAGE_VIDEO_FRAME
  THEN IF s.w_pipefd = 0
       THEN IF \A q \in s.tracker : ~(q.type = GLC_MESSAGE_VIDEO_FORMAT /\ q.id = p.id)
            THEN {Ret("NOFORMAT", s)}
            ELSE Then(open_pipe(s, p), LAMBDA o : pipe_frame([o EXCEPT !.id = p.id], p))
       ELSE IF p.id # s.id THEN {Ret("OK", s)}
       ELSE pipe_frame(s, p)
  ELSE {Ret("OK", s)}

\* pipe.c:502-512 pipe_close_callback(): is the stop callback to be called
pipe_close_callback(s) == s.write_frame_ret # "OK"

\* the write thread of the pipe sink takes a packet: pipe_read_callback(),
\* the read packet is closed, pipe_close_callback(); on CLOSE or an error
\* the thread leaves its loop, cancels the input buffer (thread.c:311-314)
\* and pipe_finish_callback() closes the pipe.  stop_capture() (main.c:452-484), if a capture
\* is going on, drains the input buffer through pipe_can_resume() and then
\* publishes the stop request
PipeDequeue ==
  /\ sink.kind = "pipe"
  /\ sth = "running" /\ sq # <<>>
  /\ LET p == Head(sq)
         log == [slog EXCEPT
                   !.seen = Append(@, p),
                   !.requested = IF p.type = GLC_CALLBACK_REQUEST THEN Append(@, p.v) ELSE @]
     IN  \E r \in pipe_read_callback(sink, p) :
           IF r.ret # "OK"
           THEN /\ sink' = close_pipe(r.sink)
                /\ sth' = "failed"
                /\ sq' = Tail(sq)
                /\ slog' = log
           ELSE IF pipe_close_callback(r.sink)
           THEN \E capturing \in BOOLEAN :
                  /\ sink' = [r.sink EXCEPT !.write_frame_ret = "OK"]
                  /\ sth' = IF capturing /\ Tail(sq) # <<>> THEN "draining" ELSE sth
                  /\ sq' = IF capturing /\ Tail(sq) = <<>>
                           THEN <<Msg(GLC_CALLBACK_REQUEST, 0, SINK_CB_STOP_ARG)>>
                           ELSE Tail(sq)
                  /\ slog' = [log EXCEPT
                                !.stops = @ + 1,
                                !.stopsSent = IF capturing /\ Tail(sq) = <<>>
                                              THEN @ + 1 ELSE @]
           ELSE /\ sink' = IF p.type = GLC_MESSAGE_CLOSE THEN close_pipe(r.sink) ELSE r.sink
                /\ sth' = IF p.type = GLC_MESSAGE_CLOSE THEN "done" ELSE sth
                /\ sq' = Tail(sq)
                /\ slog' = log
  /\ UNCHANGED restS

SNext ==
  \/ OpenTarget
  \/ WriteInfo
  \/ CloseTarget
  \/ WriteProcessStart
  \/ SinkProduce
  \/ FileDequeue
  \/ PipeDequeue

(***************************************************************************)
(* The shutdown of the pipe sink's child (glc/core/pipe.c close_pipe(),    *)
(* glc/common/signal.c glcs_signal_timed_waitpid()).                       *)
(***************************************************************************)

MaxChildren == 2
MaxWaitFaults == 1

\* what the calls of the sink thread before close_pipe() may have left in
\* errno
StaleErrno == {"EAGAIN", "EINTR", "ECHILD"}

PInit ==
  /\ shut \in {[pc |-> "open", i |-> 0, ret |-> "none", errno |-> e, faults |-> 0]
                 : e \in StaleErrno}
  /\ child = "running"
  /\ ev = <<>>
  /\ nchild = 1

\* the child ends by itself: it has read the end of its input, it has taken
\* a SIGINT, or it has failed
ChildExit ==
  /\ child = "running"
  /\ shut.pc # "done"
  /\ child' = "zombie"
  /\ UNCHANGED <<shut, ev, nchild, restP>>

\* signal.c:106-130 glcs_signal_timed_waitpid(): waitpid() gives the pid of
\* the child it has reaped, or -1 with EINTR when the timer thread's signal
\* interrupts it, or -1 with ECHILD when there is no child to wait for;
\* without its timer thread the function gives -1 at once
glcs_signal_timed_waitpid(s, c) ==
  {[shut |-> [s EXCEPT !.ret = "-1", !.errno = "EAGAIN", !.faults = @ + 1],
    child |-> c, ev |-> "nothread"] : x \in {y \in {1} : s.faults < MaxWaitFaults}}
  \cup
  {IF c = "zombie"
   THEN [shut |-> [s EXCEPT !.ret = "pid"], child |-> "reaped", ev |-> "reaped"]
   ELSE IF c = "running"
   THEN [shut |-> [s EXCEPT !.ret = "-1", !.errno = "EINTR"], child |-> c,
         ev |-> "timeout"]
   ELSE [shut |-> [s EXCEPT !.ret = "-1", !.errno = "ECHILD"], child |-> c,
         ev |-> "nochild"]}

\* pipe.c:612, 629: if (!ret || errno == ECHILD) goto child_gone
ChildGone(s) == s.ret = "0" \/ s.errno = "ECHILD"

\* pipe.c:606-613: the write end is closed and the child is waited for
CloseWriteEnd ==
  /\ shut.pc = "open"
  /\ \E w \in glcs_signal_timed_waitpid(shut, child) :
       /\ shut' = [w.shut EXCEPT !.pc = IF ChildGone(w.shut) THEN "gone" ELSE "sigint",
                                 !.i = 0]
       /\ child' = w.child
       /\ ev' = ev \o <<"close", w.ev>>
  /\ UNCHANGED <<nchild, restP>>

\* pipe.c:624-631: one turn of the SIGINT loop; kill() on a child that has
\* been reaped fails with ESRCH
SendSigint ==
  /\ shut.pc = "sigint" /\ shut.i < 3
  /\ LET k == [shut EXCEPT !.errno = IF child = "reaped" THEN "ESRCH" ELSE @]
     IN  \E w \in glcs_signal_timed_waitpid(k, child) :
           /\ shut' = [w.shut EXCEPT !.pc = IF ChildGone(w.shut) THEN "gone" ELSE "sigint",
                                     !.i = @ + 1]
           /\ child' = w.child
           /\ ev' = ev \o <<"SIGINT", w.ev>>
  /\ UNCHANGED <<nchild, restP>>

\* pipe.c:633-636: SIGKILL and the wait without a time limit
SendSigkill ==
  /\ shut.pc = "sigint" /\ shut.i = 3
  /\ shut' = [shut EXCEPT !.pc = "gone",
                          !.errno = IF child = "reaped" THEN "ECHILD" ELSE @]
  /\ child' = "reaped"
  /\ ev' = Append(ev, "SIGKILL")
  /\ UNCHANGED <<nchild, restP>>

\* pipe.c:637-640 child_gone
ChildIsGone ==
  /\ shut.pc = "gone"
  /\ shut' = [shut EXCEPT !.pc = "done"]
  /\ UNCHANGED <<child, ev, nchild, restP>>

\* pipe.c:293-435 open_pipe(): the next child is spawned
SpawnChild ==
  /\ shut.pc = "done" /\ nchild < MaxChildren
  /\ shut' = [shut EXCEPT !.pc = "open", !.i = 0, !.ret = "none"]
  /\ child' = "running"
  /\ ev' = <<>>
  /\ nchild' = nchild + 1
  /\ UNCHANGED restP

PNext ==
  \/ ChildExit
  \/ CloseWriteEnd
  \/ SendSigint
  \/ SendSigkill
  \/ ChildIsGone
  \/ SpawnChild

PIdle == PInit /\ shut.errno = "EAGAIN"

(***************************************************************************)
(* The frame writers of the pipe sink (glc/core/frame_writers.c).  A frame *)
(* is the bytes 0 .. frame_size - 1 in stored order; what the pipe has     *)
(* accepted is the sequence of the offsets of the bytes it was given.      *)
(***************************************************************************)

MaxFrames == 2
MaxConfigs == 2
\* limits.h IOV_MAX, scaled down so that a frame can have more rows
IovMax == 2
RowSizes == {2, 3}
Heights == {1, 2, 3}

\* frame_writers.c:78-86, 129-138: calloc() leaves every field zero
WInit ==
  /\ fw \in {[kind |-> k, frame_size |-> 0, left |-> 0, frame_ptr |-> 0,
              iov |-> <<>>, cur_idx |-> 0, row_sz |-> 0, num_lines |-> 0]
               : k \in {"std", "invert"}}
  /\ wpc = "created"
  /\ accepted = <<>>
  /\ wret = 0
  /\ wlog = [frames |-> 0, configs |-> 0, aborted |-> FALSE, inFrame |-> FALSE]

\* frame_writers.c:88-93 std_configure()
std_configure(w, r_sz, h) == [w EXCEPT !.frame_size = r_sz * h]

\* frame_writers.c:140-163 invert_configure(): the vector grows to h
\* entries; iov_len is set for all rows when the row size changes, else only
\* for the rows beyond the former height
invert_configure(w, r_sz, h) ==
  LET grown == [i \in 1..(IF h > Len(w.iov) THEN h ELSE Len(w.iov)) |->
                  IF i <= Len(w.iov) THEN w.iov[i] ELSE [base |-> 0, len |-> 0]]
      from == IF r_sz # w.row_sz THEN 0 ELSE w.num_lines
  IN  [w EXCEPT !.iov = [i \in DOMAIN grown |->
                           IF i - 1 >= from /\ i - 1 < h
                           THEN [grown[i] EXCEPT !.len = r_sz] ELSE grown[i]],
                !.row_sz = r_sz,
                !.num_lines = h,
                !.frame_size = r_sz * h]

\* pipe.c:311: open_pipe() configures the writer for the format of the stream
Configure ==
  /\ wpc \in {"created", "idle"} /\ wlog.configs < MaxConfigs
  /\ \E r_sz \in RowSizes, h \in Heights :
       fw' = IF fw.kind = "std" THEN std_configure(fw, r_sz, h)
             ELSE invert_configure(fw, r_sz, h)
  /\ wpc' = "idle"
  /\ wlog' = [wlog EXCEPT !.configs = @ + 1, !.inFrame = FALSE]
  /\ UNCHANGED <<accepted, wret, restW>>

\* frame_writers.c:95-101 std_write_init()
std_write_init(w) == [w EXCEPT !.frame_ptr = 0, !.left = w.frame_size]

\* frame_writers.c:165-177 invert_write_init(): row i of the vector is row
\* num_lines - 1 - i of the frame; iov_len is left as it is
invert_write_init(w) ==
  [w EXCEPT !.iov = [i \in DOMAIN w.iov |->
                       IF i <= w.num_lines
                       THEN [w.iov[i] EXCEPT !.base = (w.num_lines - i) * w.row_sz]
                       ELSE w.iov[i]],
            !.cur_idx = 0,
            !.left = w.frame_size]

\* pipe.c:477: write_video_frame() starts a frame
WriteInit ==
  /\ wpc = "idle" /\ wlog.frames < MaxFrames
  /\ fw' = IF fw.kind = "std" THEN std_write_init(fw) ELSE invert_write_init(fw)
  /\ wpc' = "write"
  /\ accepted' = <<>>
  /\ wret' = fw'.left
  /\ wlog' = [wlog EXCEPT !.frames = @ + 1, !.inFrame = TRUE]
  /\ UNCHANGED restW

\* the offsets base .. base + len - 1
Span(base, len) == [k \in 1..len |-> base + k - 1]

\* the bytes writev() is given: entries from + 1 .. from + cnt of the vector
RECURSIVE Gather(_, _, _)
Gather(iov, from, cnt) ==
  IF cnt <= 0 THEN <<>>
  ELSE Span(iov[from + 1].base, iov[from + 1].len) \o Gather(iov, from + 1, cnt - 1)

\* frame_writers.c:103-113 std_write() when write() accepts n bytes
std_write(w, n) ==
  LET w1 == [w EXCEPT !.left = @ - n, !.frame_ptr = @ + n]
  IN  [fw |-> w1, bytes |-> Span(w.frame_ptr, n), ret |-> w1.left, ub |-> FALSE]

\* frame_writers.c:194-215: the vector after writev() accepted n bytes.  An
\* index past the vector or a negative iov_len is undefined behaviour
invert_adjust(w, n) ==
  LET c == w.cur_idx + 1
      done == w.iov[c].len # w.row_sz /\ n >= w.iov[c].len
      n1 == IF done THEN n - w.iov[c].len ELSE n
      c1 == IF done THEN c + 1 ELSE c
      iov1 == IF done THEN [w.iov EXCEPT ![c].len = w.row_sz] ELSE w.iov
      left == w.left - n
      c2 == c1 + (n1 \div w.row_sz)
      rem == n1 % w.row_sz
  IN  IF left = 0
      THEN [fw |-> [w EXCEPT !.left = 0, !.cur_idx = c1 - 1, !.iov = iov1], ub |-> FALSE]
      ELSE IF c2 > Len(iov1) \/ iov1[c2].len < rem
      THEN [fw |-> [w EXCEPT !.left = left, !.cur_idx = c2 - 1, !.iov = iov1], ub |-> TRUE]
      ELSE [fw |-> [w EXCEPT !.left = left, !.cur_idx = c2 - 1,
                             !.iov = [iov1 EXCEPT ![c2].base = @ + rem,
                                                  ![c2].len = @ - rem]],
            ub |-> FALSE]

\* frame_writers.c:179-222 invert_write(): every way the calls of writev()
\* of one call can go when none fails.  With cur_idx past the last row and
\* bytes left the loop reads past the rows and may never end
RECURSIVE invert_write(_)
invert_write(w) ==
  LET cnt0 == w.num_lines - w.cur_idx
      iovcnt == IF cnt0 > IovMax THEN IovMax ELSE cnt0
      max_write == (iovcnt - 1) * w.row_sz + w.iov[w.cur_idx + 1].len
      given == Gather(w.iov, w.cur_idx, iovcnt)
  IN  UNION {LET a == invert_adjust(w, n)
                 bytes == SubSeq(given, 1, n)
             IN  IF a.ub
                 THEN {[fw |-> a.fw, bytes |-> bytes, ret |-> a.fw.left, ub |-> TRUE]}
                 ELSE IF a.fw.left = 0
                 THEN {[fw |-> a.fw, bytes |-> bytes, ret |-> 0, ub |-> FALSE]}
                 ELSE IF n = max_write /\ a.fw.cur_idx >= a.fw.num_lines
                 THEN {[fw |-> a.fw, bytes |-> bytes, ret |-> a.fw.left, ub |-> TRUE]}
                 ELSE IF n = max_write
                 THEN {[r EXCEPT !.bytes = bytes \o @] : r \in invert_write(a.fw)}
                 ELSE {[fw |-> a.fw, bytes |-> bytes, ret |-> a.fw.left, ub |-> FALSE]}
               : n \in 0..Len(given)}

\* pipe.c:483: one call of the writer's write() that the pipe does not refuse
Write ==
  /\ wpc = "write"
  /\ \E r \in IF fw.kind = "std" THEN {std_write(fw, n) : n \in 0..fw.left}
              ELSE invert_write(fw) :
       /\ fw' = r.fw
       /\ accepted' = accepted \o r.bytes
       /\ wret' = r.ret
       /\ wpc' = IF r.ub THEN "undefined"
                 ELSE IF r.ret = 0 THEN "idle" ELSE "write"
  /\ UNCHANGED <<wlog, restW>>

\* pipe.c:485-496: write() or writev() fails; EAGAIN and EINTR make
\* write_video_frame() try again, any other error ends the frame
WriteFails ==
  /\ wpc = "write"
  /\ \E fatal \in BOOLEAN :
       /\ wpc' = IF fatal THEN "idle" ELSE "write"
       /\ wlog' = [wlog EXCEPT !.aborted = @ \/ fatal]
       /\ wret' = IF fatal THEN -1 ELSE wret
  /\ UNCHANGED <<fw, accepted, restW>>

WNext ==
  \/ Configure
  \/ WriteInit
  \/ Write
  \/ WriteFails

WIdle == WInit /\ fw.kind = "std"

(***************************************************************************)
(* The demux of the player (glc/play/demux.c) with the consumers of its    *)
(* sub-streams.  A sub-stream list is a sequence, its head the head of the *)
(* linked list; buf is everything demux_send() has put into the            *)
(* sub-stream's buffer and pos the number of messages the consumer took.   *)
(***************************************************************************)

MaxDemuxMsgs == 5
MaxQuits == 1
MaxInitFaults == 1
DemuxVideoIds == {1, 2}
DemuxAudioIds == {1}

DMsg(t, i, n) == [type |-> t, id |-> i, n |-> n]

VideoTypes == {GLC_MESSAGE_VIDEO_FORMAT, GLC_MESSAGE_VIDEO_FRAME}
AudioTypes == {GLC_MESSAGE_AUDIO_FORMAT, GLC_MESSAGE_AUDIO_DATA}

\* demux.c:143-157, 203-212: demux_init(), demux_process_start()
DInit ==
  /\ dmx = [pc |-> "run", cancel |-> FALSE, video |-> <<>>, audio |-> <<>>,
            faults |-> 0]
  /\ dlog = [input |-> <<>>, quits |-> 0, violated |-> {}, at |-> 0, ub |-> FALSE]

\* demux.c:453-492, 562-604 demux_*_stream_get(): the sub-stream of the id,
\* made and put at the head of the list when there is none
NewStream(id) ==
  [id |-> id, running |-> TRUE, destroyed |-> FALSE, cancelled |-> FALSE,
   buf |-> <<>>, pos |-> 0, cons |-> "run", fmt |-> FALSE]

StreamIndex(list, id) ==
  IF \E k \in 1..Len(list) : list[k].id = id
  THEN CHOOSE k \in 1..Len(list) :
         list[k].id = id /\ \A j \in 1..(k - 1) : list[j].id # id
  ELSE 0

\* demux.c:494-507, 619-632 demux_*_stream_clean(): the consumer is joined,
\* the packet and the buffer are destroyed; the sub-stream stays in the list
demux_stream_clean(s) == [s EXCEPT !.running = FALSE, !.destroyed = TRUE]

\* demux.c:421-433, 611-617 demux_*_stream_send(): demux_send() on the
\* sub-stream's packet; EINTR of a cancelled buffer makes demux clean the
\* sub-stream.  A send on a destroyed packet is undefined
demux_stream_send(list, k, m) ==
  IF list[k].destroyed
  THEN [list |-> list, ub |-> TRUE]
  ELSE IF list[k].cancelled
  THEN [list |-> [list EXCEPT ![k] = demux_stream_clean(@)], ub |-> FALSE]
  ELSE [list |-> [list EXCEPT ![k].buf = Append(@, m)], ub |-> FALSE]

\* the broadcast of CLOSE to the running sub-streams from entry k on
RECURSIVE Broadcast(_, _, _)
Broadcast(list, k, m) ==
  IF k > Len(list) THEN list
  ELSE IF list[k].running
  THEN LET r == demux_stream_send(list, k, m)
       IN  Broadcast(r.list, k + 1, m)
  ELSE Broadcast(list, k + 1, m)

\* a demux that hands every message to the sub-stream at the head of the list
demux_stream_message_to_head(list, m, fails) ==
  IF m.type = GLC_MESSAGE_CLOSE
  THEN [list |-> Broadcast(list, 1, m), ub |-> FALSE]
  ELSE IF list # <<>> THEN demux_stream_send(list, 1, m)
  ELSE IF fails THEN [list |-> list, ub |-> FALSE]
  ELSE demux_stream_send(<<NewStream(m.id)>> \o list, 1, m)

\* demux.c:360-393, 509-541 demux_*_stream_message(); fails tells that the
\* consumer of a new sub-stream cannot be started
demux_stream_message(list, m, fails) ==
  IF m.type = GLC_MESSAGE_CLOSE
  THEN [list |-> Broadcast(list, 1, m), ub |-> FALSE]
  ELSE LET k == StreamIndex(list, m.id)
       IN  IF k # 0 THEN demux_stream_send(list, k, m)
           ELSE IF fails THEN [list |-> list, ub |-> FALSE]
           ELSE demux_stream_send(<<NewStream(m.id)>> \o list, 1, m)

\* the messages the merged stream may go on with
DemuxMessages ==
  LET n == Len(dlog.input) + 1
  IN  IF n = MaxDemuxMsgs THEN {DMsg(GLC_MESSAGE_CLOSE, 0, n)}
      ELSE {DMsg(t, i, n) : t \in VideoTypes, i \in DemuxVideoIds}
           \cup {DMsg(t, i, n) : t \in AudioTypes, i \in DemuxAudioIds}
           \cup {DMsg(GLC_MESSAGE_CLOSE, 0, n)}

\* demux.c:252-289 demux_thread(): one turn of the loop.  The results of the
\* stream functions are not looked at (demux.c:276-286)
DemuxStep ==
  /\ dmx.pc = "run"
  /\ \E m \in DemuxMessages, fails \in BOOLEAN :
       /\ fails => /\ dmx.faults < MaxInitFaults
                   /\ m.type # GLC_MESSAGE_CLOSE
                   /\ StreamIndex(IF m.type \in VideoTypes THEN dmx.video ELSE dmx.audio,
                                  m.id) = 0
       /\ LET v == IF m.type \in VideoTypes \cup {GLC_MESSAGE_CLOSE}
                   THEN demux_stream_message(dmx.video, m, fails)
                   ELSE [list |-> dmx.video, ub |-> FALSE]
              a == IF m.type \in AudioTypes \cup {GLC_MESSAGE_CLOSE}
                   THEN demux_stream_message(dmx.audio, m, fails)
                   ELSE [list |-> dmx.audio, ub |-> FALSE]
              ub == v.ub \/ a.ub
          IN  /\ \E pc \in IF ub THEN {"crashed", "hung", "next"} ELSE {"next"} :
                   dmx' = [dmx EXCEPT
                             !.video = v.list,
                             !.audio = a.list,
                             !.faults = IF fails THEN @ + 1 ELSE @,
                             !.pc = IF pc # "next" THEN pc
                                    ELSE IF dmx.cancel \/ m.type = GLC_MESSAGE_CLOSE
                                    THEN "finish" ELSE "run"]
              /\ dlog' = [dlog EXCEPT !.input = Append(@, m), !.ub = @ \/ ub]
  /\ UNCHANGED restD

\* demux.c:435-450, 543-565 demux_*_stream_close(): the buffer of a running
\* sub-stream is cancelled and the sub-stream cleaned
demux_stream_close(list) ==
  [k \in DOMAIN list |->
     IF list[k].running
     THEN demux_stream_clean([list[k] EXCEPT !.cancelled = TRUE,
                                             !.cons = IF @ = "run" THEN "quit" ELSE @])
     ELSE list[k]]

\* demux.c:291-300: the end of demux_thread()
DemuxFinish ==
  /\ dmx.pc = "finish"
  /\ dmx' = [dmx EXCEPT !.pc = "done",
                        !.video = demux_stream_close(@),
                        !.audio = demux_stream_close(@)]
  /\ UNCHANGED <<dlog, restD>>

\* the consumer of a sub-stream takes its next message; thread.c:311-314: a
\* thread that leaves its loop cancels its input buffer
Consume(s, m) ==
  [s EXCEPT !.pos = @ + 1,
            !.fmt = @ \/ m.type \in {GLC_MESSAGE_VIDEO_FORMAT, GLC_MESSAGE_AUDIO_FORMAT},
            !.cons = IF m.type = GLC_MESSAGE_CLOSE THEN "done" ELSE @,
            !.cancelled = @ \/ m.type = GLC_MESSAGE_CLOSE]

\* alsa_play.c:280-287 alsa_play_play(): audio data before the format finds
\* no pcm: EINVAL
alsa_play_play(s, m) ==
  IF m.type = GLC_MESSAGE_AUDIO_DATA /\ ~s.fmt THEN "EINVAL" ELSE "OK"

\* a thread whose error stays its own
thread_err_is_local(ret, cancel) == cancel

\* thread.c:348-359: the err path of glc_thread(): every error but EINTR
\* sets the state flag GLC_STATE_CANCEL
thread_err(ret, cancel) == IF ret = "EINTR" THEN cancel ELSE TRUE

\* the player of video sub-stream k takes a message
VideoConsume(k) ==
  /\ dmx.pc \in {"run", "finish"} /\ ~dmx.cancel
  /\ k \in 1..Len(dmx.video)
  /\ LET s == dmx.video[k]
     IN  /\ s.cons = "run" /\ ~s.cancelled /\ s.pos < Len(s.buf)
         /\ dmx' = [dmx EXCEPT !.video[k] = Consume(s, s.buf[s.pos + 1])]
  /\ UNCHANGED <<dlog, restD>>

\* the player of audio sub-stream k takes a message
AudioConsume(k) ==
  /\ dmx.pc \in {"run", "finish"} /\ ~dmx.cancel
  /\ k \in 1..Len(dmx.audio)
  /\ LET s == dmx.audio[k]
         m == s.buf[s.pos + 1]
     IN  /\ s.cons = "run" /\ ~s.cancelled /\ s.pos < Len(s.buf)
         /\ IF alsa_play_play(s, m) = "OK"
            THEN /\ dmx' = [dmx EXCEPT !.audio[k] = Consume(s, m)]
                 /\ dlog' = dlog
            ELSE /\ dmx' = [dmx EXCEPT
                              !.audio[k] = [s EXCEPT !.pos = @ + 1, !.cons = "failed",
                                                     !.cancelled = TRUE],
                              !.cancel = thread_err(alsa_play_play(s, m), @)]
                 /\ dlog' = [dlog EXCEPT !.violated = @ \cup {s.id},
                                         !.at = Len(dlog.input)]
  /\ UNCHANGED restD

\* a player leaves on its own, without an error: its thread cancels its
\* input buffer
ConsumerQuits ==
  /\ dmx.pc = "run" /\ dlog.quits < MaxQuits
  /\ \E kind \in {"video", "audio"} :
       \E k \in 1..Len(dmx[kind]) :
         /\ dmx[kind][k].cons = "run"
         /\ dmx' = [dmx EXCEPT ![kind][k].cons = "quit", ![kind][k].cancelled = TRUE]
  /\ dlog' = [dlog EXCEPT !.quits = @ + 1]
  /\ UNCHANGED restD

DNext ==
  \/ DemuxStep
  \/ DemuxFinish
  \/ \E k \in 1..Cardinality(DemuxVideoIds) : VideoConsume(k)
  \/ \E k \in 1..Cardinality(DemuxAudioIds) : AudioConsume(k)
  \/ ConsumerQuits

DIdle == DInit

(***************************************************************************)
(* Starting and stopping the capture (hook/main.c start_capture_impl(),    *)
(* stop_capture()).  The requests come from several threads: the thread    *)
(* that handles the hotkeys and the sink thread through its stop callback. *)
(***************************************************************************)

MaxCaptureOps == 5
MaxCaptureFaults == 1

Callers == {1, 2}

\* what start_capture_impl() and stop_capture() read and write
CaptureState(c) ==
  [capturing |-> c.capturing, running |-> c.running, alsa |-> c.alsa,
   opengl |-> c.opengl, diffs |-> c.diffs, stops |-> c.stops]

\* main.c:95-101, 144: the library before it captures; lock is the owner of
\* capture_action_lock (0: nobody), resume tells what the sink's can_resume
\* answers
MInit ==
  /\ cap \in {[lock |-> 0, capturing |-> FALSE, running |-> FALSE, alsa |-> FALSE,
               opengl |-> FALSE, diffs |-> 0, stops |-> 0, resume |-> r,
               faults |-> 0] : r \in BOOLEAN}
  /\ req = [c \in Callers |->
              [pc |-> "idle", op |-> "none", ret |-> "0",
               snap |-> CaptureState(cap)]]
  /\ clog = [hist |-> <<>>, calls |-> 0]

\* a step of the capture that can fail
CaptureFails(c) == {FALSE} \cup {f \in {TRUE} : c.faults < MaxCaptureFaults}

\* a thread calls start_capture_impl() or stop_capture()
CallCapture(c) ==
  /\ req[c].pc = "idle"
  /\ clog.calls < MaxCaptureOps
  /\ \E op \in {"start", "stop"} :
       req' = [req EXCEPT ![c].pc = "lock", ![c].op = op]
  /\ clog' = [clog EXCEPT !.calls = @ + 1]
  /\ UNCHANGED <<cap, restM>>

\* a mutex that every thread can take at any time
capture_action_lock_is_open(lock) == TRUE

\* main.c:418, 456 pthread_mutex_lock(&mpriv.capture_action_lock) goes on
\* when nobody owns the mutex
capture_action_lock_is_free(lock) == lock = 0

LockCapture(c) ==
  /\ req[c].pc = "lock"
  /\ capture_action_lock_is_free(cap.lock)
  /\ cap' = [cap EXCEPT !.lock = c]
  /\ req' = [req EXCEPT ![c].pc = "body", ![c].snap = CaptureState(cap)]
  /\ UNCHANGED <<clog, restM>>

\* main.c:420-431 start_capture_impl(): EAGAIN when capturing; else the
\* pipeline is started if it does not run, and the time spent stopped is
\* added to the clock's offset
StartCheck(c) ==
  /\ req[c].pc = "body" /\ req[c].op = "start"
  /\ IF cap.capturing
     THEN /\ req' = [req EXCEPT ![c].pc = "unlock", ![c].ret = "EAGAIN"]
          /\ cap' = cap
     ELSE \E f \in CaptureFails(cap) :
            IF ~cap.running /\ f
            THEN /\ req' = [req EXCEPT ![c].pc = "unlock", ![c].ret = "ERR"]
                 /\ cap' = [cap EXCEPT !.faults = @ + 1]
            ELSE /\ req' = [req EXCEPT ![c].pc = "sources"]
                 /\ cap' = [cap EXCEPT !.running = TRUE, !.diffs = @ + 1]
  /\ UNCHANGED <<clog, restM>>

\* main.c:433-439 start_capture_impl(): the audio and the video capture are
\* started and LIB_CAPTURING is set
StartSources(c) ==
  /\ req[c].pc = "sources" /\ req[c].op = "start"
  /\ \E fa \in CaptureFails(cap), fo \in CaptureFails(cap) :
       IF fa
       THEN /\ req' = [req EXCEPT ![c].pc = "unlock", ![c].ret = "ERR"]
            /\ cap' = [cap EXCEPT !.faults = @ + 1]
            /\ clog' = clog
       ELSE IF fo
       THEN /\ req' = [req EXCEPT ![c].pc = "unlock", ![c].ret = "ERR"]
            /\ cap' = [cap EXCEPT !.alsa = TRUE, !.faults = @ + 1]
            /\ clog' = clog
       ELSE /\ req' = [req EXCEPT ![c].pc = "unlock", ![c].ret = "0"]
            /\ cap' = [cap EXCEPT !.alsa = TRUE, !.opengl = TRUE,
                                  !.capturing = TRUE]
            /\ clog' = [clog EXCEPT !.hist = Append(@, "start")]
  /\ UNCHANGED restM

\* main.c:459-467 stop_capture(): EAGAIN when not capturing; else the audio
\* and the video capture are stopped
StopCheck(c) ==
  /\ req[c].pc = "body" /\ req[c].op = "stop"
  /\ IF ~cap.capturing
     THEN /\ req' = [req EXCEPT ![c].pc = "unlock", ![c].ret = "EAGAIN"]
          /\ cap' = cap
     ELSE \E fa \in CaptureFails(cap), fo \in CaptureFails(cap) :
            IF fa
            THEN /\ req' = [req EXCEPT ![c].pc = "unlock", ![c].ret = "ERR"]
                 /\ cap' = [cap EXCEPT !.faults = @ + 1]
            ELSE IF fo
            THEN /\ req' = [req EXCEPT ![c].pc = "unlock", ![c].ret = "ERR"]
                 /\ cap' = [cap EXCEPT !.alsa = FALSE, !.faults = @ + 1]
            ELSE /\ req' = [req EXCEPT ![c].pc = "sources"]
                 /\ cap' = [cap EXCEPT !.alsa = FALSE, !.opengl = FALSE]
  /\ UNCHANGED <<clog, restM>>

\* main.c:469-474 stop_capture(): a sink that cannot resume is sent the stop
\* request, LIB_CAPTURING is cleared
StopFinish(c) ==
  /\ req[c].pc = "sources" /\ req[c].op = "stop"
  /\ req' = [req EXCEPT ![c].pc = "unlock", ![c].ret = "0"]
  /\ cap' = [cap EXCEPT !.stops = IF cap.resume THEN @ ELSE @ + 1,
                        !.capturing = FALSE]
  /\ clog' = [clog EXCEPT !.hist = Append(@, "stop")]
  /\ UNCHANGED restM

\* main.c:441-448, 475-482: the mutex is released and the result returned
UnlockCapture(c) ==
  /\ req[c].pc = "unlock"
  /\ cap' = [cap EXCEPT !.lock = 0]
  /\ req' = [req EXCEPT ![c].pc = "idle"]
  /\ UNCHANGED <<clog, restM>>

MNext ==
  \E c \in Callers :
    \/ CallCapture(c)
    \/ LockCapture(c)
    \/ StartCheck(c)
    \/ StartSources(c)
    \/ StopCheck(c)
    \/ StopFinish(c)
    \/ UnlockCapture(c)

MIdle == MInit /\ ~cap.resume

(***************************************************************************)
(* The stream ids (glc/common/state.c glc_state_video_new(),                *)
(* glc_state_audio_new()).  Every capture source asks for its id from its  *)
(* own thread.                                                             *)
(***************************************************************************)

MaxAllocs == 5

Allocators == {1, 2, 3}
StreamKinds == {"video", "audio"}

\* state.c:66-78 glc_state_init(): calloc() leaves both counts at 0 and both
\* lists empty; lock is the writer that owns the kind's rwlock (0: nobody)
NInit ==
  /\ sids = [k \in StreamKinds |-> [count |-> 0, lock |-> 0, list |-> <<>>]]
  /\ alloc = [c \in Allocators |-> [pc |-> "idle", kind |-> "video", reg |-> 0, id |-> 0]]
  /\ ilog = [k \in StreamKinds |-> <<>>]

\* a thread calls glc_state_video_new() or glc_state_audio_new()
CallNew(c) ==
  /\ alloc[c].pc = "idle"
  /\ Len(ilog["video"]) + Len(ilog["audio"])
       + Cardinality({d \in Allocators : alloc[d].pc # "idle"}) < MaxAllocs
  /\ \E k \in StreamKinds :
       alloc' = [alloc EXCEPT ![c] = [pc |-> "wrlock", kind |-> k, reg |-> 0, id |-> 0]]
  /\ UNCHANGED <<sids, ilog, restN>>

\* a lock that every thread can take at any time
rwlock_is_open(lock) == TRUE

\* state.c:117, 132 pthread_rwlock_wrlock() goes on when nobody owns the lock
rwlock_is_free(lock) == lock = 0

WrLock(c) ==
  /\ alloc[c].pc = "wrlock"
  /\ rwlock_is_free(sids[alloc[c].kind].lock)
  /\ sids' = [sids EXCEPT ![alloc[c].kind].lock = c]
  /\ alloc' = [alloc EXCEPT ![c].pc = "read"]
  /\ UNCHANGED <<ilog, restN>>

\* state.c:118, 133: ++count reads the count ...
ReadCount(c) ==
  /\ alloc[c].pc = "read"
  /\ alloc' = [alloc EXCEPT ![c].pc = "write", ![c].reg = sids[alloc[c].kind].count]
  /\ UNCHANGED <<sids, ilog, restN>>

\* state.c:118-120, 133-135: ... and stores it incremented; the new value is
\* the id, and the stream is put at the head of the kind's list
WriteCount(c) ==
  /\ alloc[c].pc = "write"
  /\ LET k == alloc[c].kind
         n == alloc[c].reg + 1
     IN  /\ sids' = [sids EXCEPT ![k].count = n, ![k].list = <<n>> \o @]
         /\ alloc' = [alloc EXCEPT ![c].pc = "unlock", ![c].id = n]
  /\ UNCHANGED <<ilog, restN>>

\* state.c:121, 136 pthread_rwlock_unlock()
WrUnlock(c) ==
  /\ alloc[c].pc = "unlock"
  /\ sids' = [sids EXCEPT ![alloc[c].kind].lock = 0]
  /\ alloc' = [alloc EXCEPT ![c].pc = "return"]
  /\ UNCHANGED <<ilog, restN>>

\* state.c:123-124, 138-139: the id is handed to the caller
ReturnId(c) ==
  /\ alloc[c].pc = "return"
  /\ ilog' = [ilog EXCEPT ![alloc[c].kind] = Append(@, alloc[c].id)]
  /\ alloc' = [alloc EXCEPT ![c].pc = "idle"]
  /\ UNCHANGED <<sids, restN>>

NNext ==
  \E c \in Allocators :
    \/ CallNew(c)
    \/ WrLock(c)
    \/ ReadCount(c)
    \/ WriteCount(c)
    \/ WrUnlock(c)
    \/ ReturnId(c)

NIdle == NInit

(***************************************************************************)
(* Waiting for the write thread of the file sink (glc/core/file.c          *)
(* file_write_process_wait()) while the thread works (file_read_callback()) *)
(* : lib_close() of hook/main.c calls the wait from the thread that ends   *)
(* the process.                                                            *)
(***************************************************************************)

MaxJoinMsgs == 3

\* the packets the write thread may find in its buffer
JoinPackets ==
  {Msg(GLC_MESSAGE_VIDEO_FRAME, 1, 0), Msg(GLC_MESSAGE_CLOSE, 0, 0),
   Msg(GLC_CALLBACK_REQUEST, 0, SINK_CB_RELOAD_ARG),
   Msg(GLC_CALLBACK_REQUEST, 0, SINK_CB_STOP_ARG)}

Terminated(pc) == pc \in {"done", "failed", "crashed"}

\* file.c:150-175 file_sink_init(), main.c:498-511: the file sink with its
\* callback set, no target open and no thread; jw is the caller of
\* write_process_wait, alive tells whether the thread was still at work when
\* the call returned
JInit ==
  /\ js = [kind |-> "file", handle |-> 0, flags |-> {}, files |-> <<>>,
           faults |-> 0, tracker |-> {}, callback |-> TRUE,
           delay_ms |-> 0, delay_ns |-> 0, w_pipefd |-> 0, id |-> 0,
           first_frame_ts |-> 0, write_frame_ret |-> "OK", children |-> <<>>,
           calls |-> <<>>]
  /\ jth = [pc |-> "none", arg |-> 0, n |-> 0]
  /\ jw = [pc |-> "none", ret |-> "none", alive |-> FALSE, incall |-> FALSE]

\* main.c:279-311 open_stream() before the thread is started
JOpenStream ==
  /\ jth.pc = "none" /\ js.handle = 0 /\ Len(js.files) < 1
  /\ \E r \in open_stream(js) : js' = r.sink
  /\ UNCHANGED <<jth, jw, restJ>>

\* file.c:438-453 file_write_process_start()
JStart ==
  /\ jth.pc = "none"
  /\ is_write_open_not_running(js) /\ FILE_INFO_WRITTEN \in js.flags
  /\ js' = [js EXCEPT !.flags = @ \cup {FILE_RUNNING}]
  /\ jth' = [jth EXCEPT !.pc = "loop"]
  /\ UNCHANGED <<jw, restJ>>

\* file.c:479-528 file_read_callback() up to the call of the callback: a
\* callback request clears FILE_RUNNING; any other message is written to the
\* target, and CLOSE ends the thread
JDequeue ==
  /\ jth.pc = "loop" /\ jth.n < MaxJoinMsgs
  /\ \E p \in JoinPackets :
       LET s1 == [js EXCEPT !.tracker = tracker_submit(@, p)]
       IN  IF p.type = GLC_CALLBACK_REQUEST
           THEN /\ js' = [s1 EXCEPT !.flags = @ \ {FILE_RUNNING}]
                /\ jth' = [pc |-> "callback", arg |-> p.v, n |-> jth.n + 1]
           ELSE IF s1.handle = 0
           THEN \* fwrite_unlocked() on a NULL stream
                /\ js' = s1
                /\ \E e \in {"crashed", "failed"} :
                     jth' = [jth EXCEPT !.pc = e, !.n = @ + 1]
           ELSE \E bad \in IoFails(s1) :
                  IF bad
                  THEN /\ js' = Failed(s1)
                       /\ jth' = [jth EXCEPT !.pc = "failed", !.n = @ + 1]
                  ELSE /\ js' = file_write_message(s1, p)
                       /\ jth' = [jth EXCEPT !.n = @ + 1,
                                    !.pc = IF p.type = GLC_MESSAGE_CLOSE
                                           THEN "done" ELSE @]
  /\ UNCHANGED <<jw, restJ>>

\* file.c:493-495 file_read_callback(): the callback runs and FILE_RUNNING
\* is set again
JCallback ==
  /\ jth.pc = "callback"
  /\ \E s2 \in stream_sink_callback(js, jth.arg) :
       js' = [s2 EXCEPT !.flags = @ \cup {FILE_RUNNING}]
  /\ jth' = [jth EXCEPT !.pc = "loop"]
  /\ UNCHANGED <<jw, restJ>>

\* file.c:455-468 file_write_process_wait(): EAGAIN unless the target is
\* open, the info written and FILE_RUNNING set; else the thread is joined
file_write_process_wait(s) ==
  IF \/ s.handle = 0
     \/ FILE_RUNNING \notin s.flags
     \/ FILE_WRITING \notin s.flags
     \/ FILE_INFO_WRITTEN \notin s.flags
  THEN "EAGAIN" ELSE "join"

\* main.c:586 lib_close() calls write_process_wait of a sink whose
\* write_process_start has succeeded
JWait ==
  /\ jw.pc = "none" /\ jth.pc # "none"
  /\ IF file_write_process_wait(js) = "EAGAIN"
     THEN jw' = [pc |-> "returned", ret |-> "EAGAIN", alive |-> ~Terminated(jth.pc),
                 incall |-> jth.pc = "callback"]
     ELSE jw' = [jw EXCEPT !.pc = "joining"]
  /\ UNCHANGED <<js, jth, restJ>>

\* thread.c glc_thread_wait(): pthread_join() returns when the thread has
\* ended; file.c:465-467: FILE_RUNNING is cleared
JJoin ==
  /\ jw.pc = "joining" /\ Terminated(jth.pc)
  /\ jw' = [jw EXCEPT !.pc = "returned", !.ret = "0"]
  /\ js' = [js EXCEPT !.flags = @ \ {FILE_RUNNING}]
  /\ UNCHANGED <<jth, restJ>>

JNext ==
  \/ JOpenStream
  \/ JStart
  \/ JDequeue
  \/ JCallback
  \/ JWait
  \/ JJoin

JIdle == JInit

(***************************************************************************)
(* The creation of a worker group (glc/common/thread.c                     *)
(* glc_thread_create()) while the workers it has already created end       *)
(* (glc_thread(), from the label finish on).  The body of a worker is the  *)
(* one of the worker framework above; here a worker only starts and ends.  *)
(***************************************************************************)

\* thread->threads of the group
GroupSize == 3

\* how often pthread_create() may fail
MaxCreateFaults == 1

GroupWorkers == 1..GroupSize

\* thread.c:59 running_threads is a size_t: "running_threads > 0" is true of
\* every value but 0, also of the one a decrement of 0 wraps to.  The model
\* keeps the representative of the value modulo 2^64 that is nearest to 0
size_gt_zero(x) == x # 0

\* thread.c:69-91 glc_thread_create() up to its loop: the private structure
\* is calloc'ed, no thread created yet.  created is the loop index t, reg
\* the register of running_threads++, finish the owner of the finish mutex
GInit ==
  /\ gpriv = [running_threads |-> 0, created |-> 0, pc |-> "load", reg |-> 0,
              finish |-> 0, faults |-> 0]
  /\ gth = [wk \in GroupWorkers |-> [pc |-> "none", reg |-> 0]]
  /\ glog = <<>>

\* thread.c:94 running_threads++ is not under the finish mutex: its load
CreateLoad ==
  /\ gpriv.pc = "load"
  /\ gpriv' = [gpriv EXCEPT !.reg = gpriv.running_threads, !.pc = "store"]
  /\ UNCHANGED <<gth, glog, restG>>

\* thread.c:94 running_threads++: its store
CreateStore ==
  /\ gpriv.pc = "store"
  /\ gpriv' = [gpriv EXCEPT !.running_threads = gpriv.reg + 1, !.pc = "create"]
  /\ UNCHANGED <<gth, glog, restG>>

\* thread.c:95-101 pthread_create(): the next worker runs, or the call fails,
\* running_threads is decremented and glc_thread_create() returns
CreateThread ==
  /\ gpriv.pc = "create"
  /\ \E fails \in BOOLEAN :
       /\ fails => gpriv.faults < MaxCreateFaults
       /\ IF fails
          THEN /\ gpriv' = [gpriv EXCEPT !.running_threads = @ - 1,
                                         !.faults = @ + 1, !.pc = "failed"]
               /\ gth' = gth
          ELSE /\ gpriv' = [gpriv EXCEPT !.created = @ + 1,
                                         !.pc = IF gpriv.created + 1 < GroupSize
                                                THEN "load" ELSE "done"]
               /\ gth' = [gth EXCEPT ![gpriv.created + 1].pc = "run"]
  /\ UNCHANGED <<glog, restG>>

\* the workers that have run their per-thread finish step
FinishStepDone == {wk \in GroupWorkers : gth[wk].pc \in {"dec", "test", "done"}}

\* thread.c:323-328 the worker leaves its loop: thread_finish_callback, the
\* finish mutex is taken and running_threads loaded for the decrement
WorkerFinishLock(wk) ==
  /\ gth[wk].pc = "run"
  /\ gpriv.finish = 0
  /\ gth' = [gth EXCEPT ![wk] = [pc |-> "dec", reg |-> gpriv.running_threads]]
  /\ gpriv' = [gpriv EXCEPT !.finish = wk]
  /\ UNCHANGED <<glog, restG>>

\* thread.c:328 running_threads--: its store
WorkerFinishStore(wk) ==
  /\ gth[wk].pc = "dec"
  /\ gpriv' = [gpriv EXCEPT !.running_threads = gth[wk].reg - 1]
  /\ gth' = [gth EXCEPT ![wk].pc = "test"]
  /\ UNCHANGED <<glog, restG>>

\* thread.c:334-344 the test of running_threads, the unlock and, by the
\* worker that finds 0, the finish callback; glog notes for each call of the
\* callback how many workers had run their finish step
WorkerFinishTest(wk) ==
  /\ gth[wk].pc = "test"
  /\ gpriv' = [gpriv EXCEPT !.finish = 0]
  /\ gth' = [gth EXCEPT ![wk].pc = "done"]
  /\ glog' = IF size_gt_zero(gpriv.running_threads)
             THEN glog
             ELSE Append(glog, [by |-> wk, finished |-> Cardinality(FinishStepDone)])
  /\ UNCHANGED restG

GNext ==
  \/ CreateLoad
  \/ CreateStore
  \/ CreateThread
  \/ \E wk \in GroupWorkers : WorkerFinishLock(wk)
  \/ \E wk \in GroupWorkers : WorkerFinishStore(wk)
  \/ \E wk \in GroupWorkers : WorkerFinishTest(wk)

GIdle == GInit

\* the other parts at rest
SIdle == SInit /\ sink.kind = "file"
AIdle == AInit /\ ac.id = 1
KIdle == KInit /\ tm.delay_nsec = 0
CIdle ==
  /\ CInit
  /\ orig = <<PlainMsg(GLC_MESSAGE_AUDIO_FORMAT, compress_min + 1, 0, 3), CloseMsg>>
  /\ compression = GLC_MESSAGE_LZO
  /\ stream_version = 5

Init == TInit /\ AIdle /\ KIdle /\ CIdle /\ SIdle /\ PIdle /\ WIdle /\ DIdle /\ MIdle /\ NIdle /\ JIdle /\ GIdle

Spec == Init /\ [][TNext]_vars

\* the capture source on its own; the worker groups stand still
TIdle == TInit /\ inStream = <<>>

InitAlsa == TIdle /\ AInit /\ KIdle /\ CIdle /\ SIdle /\ PIdle /\ WIdle /\ DIdle /\ MIdle /\ NIdle /\ JIdle /\ GIdle

SpecAlsa == InitAlsa /\ [][ANext]_vars

InitTime == TIdle /\ AIdle /\ KInit /\ CIdle /\ SIdle /\ PIdle /\ WIdle /\ DIdle /\ MIdle /\ NIdle /\ JIdle /\ GIdle

\* the state time on its own
SpecTime == InitTime /\ [][KNext]_vars

InitFile == TIdle /\ AIdle /\ KIdle /\ CInit /\ SIdle /\ PIdle /\ WIdle /\ DIdle /\ MIdle /\ NIdle /\ JIdle /\ GIdle

InitSink == TIdle /\ AIdle /\ KIdle /\ CIdle /\ SInit /\ PIdle /\ WIdle /\ DIdle /\ MIdle /\ NIdle /\ JIdle /\ GIdle

\* a sink, its client and its write thread on their own
SpecSink == InitSink /\ [][SNext]_vars

\* pack, file sink, file source and unpack on their own
SpecFile == InitFile /\ [][CNext]_vars

InitShut == TIdle /\ AIdle /\ KIdle /\ CIdle /\ SIdle /\ PInit /\ WIdle /\ DIdle /\ MIdle /\ NIdle /\ JIdle /\ GIdle

\* the shutdown of the pipe sink's child on its own
SpecShut == InitShut /\ [][PNext]_vars

InitWriter == TIdle /\ AIdle /\ KIdle /\ CIdle /\ SIdle /\ PIdle /\ WInit /\ DIdle /\ MIdle /\ NIdle /\ JIdle /\ GIdle

\* a frame writer on its own
SpecWriter == InitWriter /\ [][WNext]_vars

InitDemux == TIdle /\ AIdle /\ KIdle /\ CIdle /\ SIdle /\ PIdle /\ WIdle /\ DInit /\ MIdle /\ NIdle /\ JIdle /\ GIdle

\* the demux and the players of its sub-streams on their own
SpecDemux == InitDemux /\ [][DNext]_vars

InitCapture == TIdle /\ AIdle /\ KIdle /\ CIdle /\ SIdle /\ PIdle /\ WIdle /\ DIdle /\ MInit /\ NIdle /\ JIdle /\ GIdle

\* the capture requests of two threads
SpecCapture == InitCapture /\ [][MNext]_vars

InitIds == TIdle /\ AIdle /\ KIdle /\ CIdle /\ SIdle /\ PIdle /\ WIdle /\ DIdle /\ MIdle /\ NInit /\ JIdle /\ GIdle

\* the id allocations of three threads
SpecIds == InitIds /\ [][NNext]_vars

InitJoin == TIdle /\ AIdle /\ KIdle /\ CIdle /\ SIdle /\ PIdle /\ WIdle /\ DIdle /\ MIdle /\ NIdle /\ JInit /\ GIdle

\* write_process_wait against the write thread
SpecJoin == InitJoin /\ [][JNext]_vars

InitGroup == TIdle /\ AIdle /\ KIdle /\ CIdle /\ SIdle /\ PIdle /\ WIdle /\ DIdle /\ MIdle /\ NIdle /\ JIdle /\ GInit

\* the creation of a worker group on its own
SpecGroup == InitGroup /\ [][GNext]_vars

\* every thread is scheduled, and the producer publishes what it has
LiveSpec == Spec /\ WF_vars(Produce) /\ \A t \in Threads : WF_vars(ThreadStep(t))

(***************************************************************************)
(* Properties of the worker framework.                                     *)
(***************************************************************************)
AllWorkersDone == \A w \in Workers : th[w].pc = "done"
AllThreadsDone == \A t \in Threads : th[t].pc = "done"
NoWorkerFailed == \A w \in Workers : th[w].ret # "ERR"

\* slots of a buffer that its writer has published
Published(b) == {i \in 1..Len(b.slots) : b.slots[i].st \in {"written", "claimed", "freed"}}
Complete(s) == s.hdr # "NONE" /\ s.pay # 0

\* a CLOSE message has been claimed from the input buffer
CloseRead == \E i \in 1..Len(inLog) : inLog[i].type = "CLOSE"

\* C1: with a pass-through filter (no callback of a worker fails), the packet
\* published in the i-th slot of the output buffer is the i-th packet claimed
\* from the input buffer, in every interleaving of the workers; and when the
\* group has terminated without any failure, the published sequence is the
\* whole input stream.
C1_OrderPreserved ==
  /\ NoWorkerFailed =>
       \A i \in Published(buf["out"]) :
          /\ i <= Len(inLog)
          /\ SlotPkt(buf["out"].slots[i]) = inLog[i]
  /\ (AllWorkersDone /\ faults = 0) =>
       /\ inLog = inStream
       /\ Published(buf["out"]) = 1..Len(inStream)

\* the whole stream went through, and both workers held a packet at one time
C1_Witness ==
  /\ faults = 0
  /\ Len(inStream) = MaxPkts + 1
  /\ Published(buf["out"]) = 1..MaxPkts
  /\ \E w1, w2 \in Workers :
       /\ w1 # w2
       /\ th[w1].pc = "wclose" /\ th[w1].header.type = "CLOSE"
       /\ th[w2].pc = "ccb" /\ th[w2].header.type = "DATA"

\* C2: at most one CLOSE is published on the output buffer, no slot is
\* reserved behind it, and when the group has terminated without any failure
\* (so its input ended with CLOSE) exactly one CLOSE is published.
C2_OneClose ==
  LET o == buf["out"]
      closes == {i \in Published(o) : o.slots[i].hdr = "CLOSE"}
  IN
  /\ Cardinality(closes) <= 1
  /\ \A i \in closes : i = Len(o.slots)
  /\ (AllWorkersDone /\ faults = 0) => Cardinality(closes) = 1

\* the CLOSE is published while the other worker still holds the packet before it
C2_Witness ==
  /\ faults = 0
  /\ Len(buf["out"].slots) = 2
  /\ buf["out"].slots[2].hdr = "CLOSE"
  /\ buf["out"].slots[2].st = "written"
  /\ buf["out"].slots[1].st = "open"

\* C3: once a worker has read CLOSE every worker of the group terminates, and
\* when they have (no callback having failed) every packet claimed from the
\* input buffer before the CLOSE is published completely on the output buffer.
C3_StopAfterClose ==
  /\ CloseRead ~> AllWorkersDone
  /\ [](AllWorkersDone /\ CloseRead /\ faults = 0 =>
          \A i \in 1..Len(inLog) :
             inLog[i].type # "CLOSE" =>
                /\ i \in Published(buf["out"])
                /\ Complete(buf["out"].slots[i])
                /\ SlotPkt(buf["out"].slots[i]) = inLog[i])

\* one worker has read CLOSE and left; the other still drains its packet
C3_Witness ==
  /\ faults = 0
  /\ CloseRead
  /\ priv["filter"].stop
  /\ \E w1, w2 \in Workers :
       /\ th[w1].pc = "done"
       /\ th[w2].pc = "wdata" /\ th[w2].header.type = "DATA"

\* C4 (as claimed): when a worker has failed with an error other than
\* "interrupted", then, once the workers of the group have all terminated,
\* CANCEL is set and both buffers of the group are cancelled.
C4_FailureCancelsBoth ==
  (AllWorkersDone /\ \E w \in Workers : th[w].ret = "ERR") =>
     /\ glcCancel
     /\ buf["in"].cancelled
     /\ buf["out"].cancelled

C6_CancelTerminatesAll == glcCancel => (AllThreadsDone \/ ENABLED TNext)

(***************************************************************************)
(* Properties of the ALSA capture source.                                  *)
(***************************************************************************)

C8_StopDrains ==
  ~(apc = "poll" /\ ac.nfds = 1 /\ hist.needDrop)

\* C9: once start has cleared skip_data and written the interrupt byte, a
\* thread that can take no further step is Running
C9_StartReachesRunning ==
  (/\ cpc = "idle" /\ ~ac.skip_data /\ hist.starts > 0
   /\ ~hist.openFailed /\ ~abufCancelled
   /\ pipe = 0
   /\ ~ENABLED alsa_capture_thread)
  => Running

\* C10: a recovered overrun reported by the read leaves the thread Running,
\* and every period it reads afterwards is published as AUDIO_DATA
C10_XrunKeepsRunning ==
  [][/\ (hist.epipe' > hist.epipe /\ ~abufCancelled)
        => (Running' /\ ac' = ac /\ apc' = "prepare" /\ abuf' = abuf)
     /\ (hist.epipe > 0 /\ hist.read' > hist.read /\ ~abufCancelled)
        => abuf' = Append(abuf, AudioDataPkt)]_vars

\* an overrun was recovered during a read and a later period was published
C10_Witness ==
  /\ hist.epipe > 0
  /\ Running
  /\ Len(abuf) > hist.epipeAt
  /\ abuf[Len(abuf)] = AudioDataPkt
  /\ hist.read = Len(abuf) - 1

(***************************************************************************)
(* Properties of the state time.                                           *)
(***************************************************************************)

\* C11: the time fields of the successive AUDIO_DATA packets of a stream
\* never decrease, over any sequence of capture start, capture stop and
\* stream reload
C11_TimeNonDecreasing ==
  \A i, j \in 1..Len(stamps) : i <= j => stamps[i] <= stamps[j]

\* C12 as stated: unpack reading pack's output buffer publishes the packets
\* pack was fed, header and payload unchanged, for every message type, payload
\* size and compression
C12_DirectUnpackIsIdentity ==
  Len(direct) = Len(orig) => direct = orig

\* the message unpack is meant to read for packet p of pack's output
Stored(p) == IF p.type = GLC_MESSAGE_CONTAINER THEN ContainerMessage(p) ELSE p

\* C12 amended: for every compression and every packet that is neither a
\* CONTAINER nor a message of an algorithm's type, unpack applied to the message
\* that pack's output stores (the message inside the CONTAINER when pack
\* compressed the packet, pack's output itself otherwise) yields the packet
\* pack was fed, header and payload unchanged
C12_UnpackOfStoredIsIdentity ==
  \A i \in 1..Len(packed) :
    orig[i].type \notin Algorithms \cup {GLC_MESSAGE_CONTAINER}
      => unpack(Stored(packed[i])) = orig[i]

C12_Witness ==
  /\ compression = GLC_MESSAGE_LZJB
  /\ \E i \in 1..Len(packed) :
       /\ PackCompresses(orig[i])
       /\ packed[i].type = GLC_MESSAGE_CONTAINER
       /\ unpack(Stored(packed[i])) = orig[i]

\* the file was read to its CLOSE message
ReadWhole == ~eofCut /\ stage \in {"unpack", "done"}

\* C13 as stated: a packet sequence written by the file sink in the current
\* stream version and read back by the file source is delivered unchanged:
\* same message types, same payloads, same order
C13_FileRoundTrip ==
  (stream_version = 5 /\ ReadWhole) => src = packed

\* C13 amended: in the current stream version the file source delivers, in
\* the order written, every packet the sink wrote that is no CONTAINER with
\* its type and payload unchanged, and for every CONTAINER the message the
\* container wraps
C13_FileRoundTripUnwraps ==
  (stream_version = 5 /\ ReadWhole)
    => src = [i \in 1..Len(packed) |-> Stored(packed[i])]

C13_Witness ==
  /\ stream_version = 5 /\ ReadWhole
  /\ Len(src) = MaxMsgs + 1
  /\ src[1].type = GLC_MESSAGE_AUDIO_FORMAT
  /\ src[2].type = GLC_MESSAGE_COLOR
  /\ packed[2].type = GLC_MESSAGE_CONTAINER

\* C14: when the file ends before a CLOSE message has been read, wherever the
\* end falls, file_read() publishes exactly one CLOSE, as the last packet of
\* its output buffer
C14_EofPublishesClose ==
  (eofCut /\ stage \in {"unpack", "done"})
    => /\ Len(src) > 0
       /\ src[Len(src)].type = GLC_MESSAGE_CLOSE
       /\ Cardinality({i \in 1..Len(src) : src[i].type = GLC_MESSAGE_CLOSE}) = 1

\* the message a version 0x03 or 0x04 file stores as s, as playback is to
\* deliver it: unwrapped, and a VIDEO_FRAME or AUDIO_DATA with its time in
\* nanoseconds
Played(s) ==
  LET m == unpack(s)
  IN  IF m.type \in {GLC_MESSAGE_VIDEO_FRAME, GLC_MESSAGE_AUDIO_DATA}
      THEN [m EXCEPT !.time = @ * 1000]
      ELSE m

\* C15: playing a version 0x03 or 0x04 file, every VIDEO_FRAME and AUDIO_DATA
\* leaving the file source and unpack carries 1000 times the stored time,
\* stored plain or inside an LZO, QUICKLZ or LZJB wrapper, and every other
\* message is delivered unchanged, all in the stored order
C15_OldTimesScaled ==
  (stream_version < 5 /\ ~eofCut /\ stage = "done")
    => out = [i \in 1..Len(packed) |-> Played(Stored(packed[i]))]

\* the same for the messages stored plain
C15_PlainTimesScaled ==
  (stream_version < 5 /\ ~eofCut /\ stage = "done")
    => \A i \in 1..Len(packed) :
         Stored(packed[i]).type \notin Algorithms
           => out[i] = Played(Stored(packed[i]))

\* C16: a target holds messages only if write_info succeeded on it first, at
\* the start (write_process_start is refused otherwise) and after every
\* re-open of the target
C16_InfoBeforeMessages ==
  /\ \A i \in 1..Len(slog.startInfo) : slog.startInfo[i]
  /\ \A i \in 1..Len(sink.files) :
       sink.files[i].msgs # <<>> => sink.files[i].info

\* the first half alone: the write thread is started only on a target whose
\* info header was written
C16_StartNeedsInfo ==
  \A i \in 1..Len(slog.startInfo) : slog.startInfo[i]

\* the last message of type t for stream i among ms, as a set
Latest(ms, t, i) ==
  {ms[k] : k \in {j \in 1..Len(ms) :
                    /\ ms[j].type = t /\ ms[j].id = i
                    /\ \A l \in (j + 1)..Len(ms) : ~(ms[l].type = t /\ ms[l].id = i)}}

Elements(ms) == {ms[k] : k \in 1..Len(ms)}

\* the write thread has carried out a reload: the callback opened a new target
\* and wrote the info header and the state to it
ReloadDone ==
  /\ sth = "running"
  /\ Len(sink'.files) = Len(sink.files) + 1
  /\ sink'.files[Len(sink'.files)].info
  /\ sink'.files[Len(sink'.files)].replayed

C19_FormatPrecedesData ==
  \A i \in 1..Len(sink.files) :
    LET ms == sink.files[i].msgs
        before(k, t) == \E j \in 1..(k - 1) : ms[j].type = t /\ ms[j].id = ms[k].id
    IN  \A k \in 1..Len(ms) :
          /\ ms[k].type = GLC_MESSAGE_VIDEO_FRAME => before(k, GLC_MESSAGE_VIDEO_FORMAT)
          /\ ms[k].type = GLC_MESSAGE_AUDIO_DATA => before(k, GLC_MESSAGE_AUDIO_FORMAT)

\* the same as long as no I/O call of the sink has failed
C19_FormatPrecedesDataNoFailure ==
  sink.faults = 0 => C19_FormatPrecedesData

\* C17: a CALLBACK_REQUEST a sink has dequeued is written to no target, file
\* or child, and the callback has been invoked once for each dequeued
\* request, in order, with the request's argument
C17_RequestNotPersisted ==
  /\ sink.calls = slog.requested
  /\ \A f \in 1..Len(sink.files) : \A k \in 1..Len(sink.files[f].msgs) :
       sink.files[f].msgs[k].type # GLC_CALLBACK_REQUEST
  /\ \A c \in 1..Len(sink.children) : \A k \in 1..Len(sink.children[c].frames) :
       sink.children[c].frames[k].type # GLC_CALLBACK_REQUEST

\* the pipe sink has taken a stop request while its child had a frame
C17_Witness ==
  /\ sink.kind = "pipe"
  /\ \E k \in 1..Len(slog.requested) : slog.requested[k] = SINK_CB_STOP_ARG
  /\ Len(sink.children) = 1 /\ sink.children[1].frames # <<>>
  /\ sink.children[1].closed

\* the file sink has taken a reload request while its file had messages
C17_WitnessFile ==
  /\ sink.kind = "file"
  /\ slog.requested = <<SINK_CB_RELOAD_ARG>>
  /\ Len(sink.files) = 2 /\ Len(sink.files[1].msgs) > 1

\* the failed frame writes of the pipe sink so far
RECURSIVE FrameFails(_)
FrameFails(cs) ==
  IF cs = <<>> THEN 0 ELSE Head(cs).fails + FrameFails(Tail(cs))

\* C20: once a frame write to a child has failed for good the stop callback
\* has been invoked, the sink thread has left its loop with its input buffer
\* cancelled, and no further frame write to that child has been attempted
C20_FailureEndsThread ==
  \A c \in 1..Len(sink.children) :
    sink.children[c].fails > 0 =>
      /\ slog.stops > 0
      /\ sth \notin {"running", "draining"}
      /\ ~sink.children[c].late

\* C20, as the code has it: a step in which a frame write fails for good
\* invokes the stop callback once, and no other step invokes it; after the
\* step the thread is still in its loop, its input buffer is not cancelled,
\* the child's pipe is still open and write_frame_ret is cleared
C20_FailureCallsStop ==
  [][/\ slog'.stops - slog.stops
          = FrameFails(sink'.children) - FrameFails(sink.children)
     /\ FrameFails(sink'.children) > FrameFails(sink.children) =>
          /\ sth' \in {"running", "draining"}
          /\ sink'.w_pipefd # 0
          /\ ~sink'.children[sink'.w_pipefd].closed
          /\ sink'.write_frame_ret = "OK"]_vars

\* a frame write failed, the stop callback ran, and the thread has since
\* written a further frame to the same child
C20_Witness ==
  /\ sth = "running"
  /\ slog.stops = 1
  /\ \E c \in 1..Len(sink.children) :
       /\ sink.children[c].fails = 1
       /\ sink.children[c].late
       /\ sink.children[c].frames # <<>>

(***************************************************************************)
(* Properties of the shutdown of the pipe sink's child.                    *)
(***************************************************************************)

SigintsBefore(k) == Cardinality({j \in 1..(k - 1) : ev[j] = "SIGINT"})

\* C21: the shutdown of a child starts by closing the write end and a timed
\* wait; a SIGINT follows only a timed wait that expired with the child not
\* reaped, at most three are sent, SIGKILL follows only the expired wait
\* after the third SIGINT, and a child reaped by the first wait is sent no
\* signal
C21_ShutdownSignals ==
  /\ ev # <<>> => ev[1] = "close"
  /\ \A k \in 1..Len(ev) :
       /\ ev[k] = "SIGINT" =>
            /\ k > 1 /\ ev[k - 1] = "timeout"
            /\ \A j \in 1..(k - 1) : ev[j] # "reaped"
            /\ SigintsBefore(k) < 3
       /\ ev[k] = "SIGKILL" =>
            /\ ev[k - 1] = "timeout"
            /\ SigintsBefore(k) = 3
  /\ (Len(ev) >= 2 /\ ev[2] = "reaped") =>
       \A k \in 1..Len(ev) : ev[k] \notin {"SIGINT", "SIGKILL"}

\* the signals of a shutdown whose timer threads all started and whose child
\* was still there at every wait follow the order of C21
C21_SignalsWhileChildLives ==
  (\A k \in 1..Len(ev) : ev[k] \notin {"reaped", "nothread", "nochild"}) =>
     C21_ShutdownSignals

(***************************************************************************)
(* Properties of the pipe sink's frame filter.                             *)
(***************************************************************************)

\* the frame writes made for the child the pipe is open to
Attempts(s) ==
  IF s.w_pipefd = 0 THEN 0
  ELSE Len(s.children[s.w_pipefd].frames) + s.children[s.w_pipefd].fails

\* a step of the write thread on a VIDEO_FRAME that leaves a child spawned
FrameStep ==
  /\ sink.kind = "pipe" /\ sth = "running" /\ sq # <<>>
  /\ Head(sq).type = GLC_MESSAGE_VIDEO_FRAME
  /\ sink'.w_pipefd # 0

\* the frame of the step was written, or its write was tried
FrameTried ==
  Attempts(sink') > IF sink.w_pipefd = sink'.w_pipefd THEN Attempts(sink) ELSE 0

\* C22: once the child is spawned a frame is written if and only if it is of
\* the stream of the child's first frame and its time is not smaller than
\* that frame's time plus the configured delay; no frame makes the thread
\* fail
C22_FrameFilter ==
  [][FrameStep =>
       LET c == sink'.children[sink'.w_pipefd]
           p == Head(sq)
       IN  /\ FrameTried <=>
                (p.id = c.id /\ p.v >= c.time + pipe_delay_ns_unbounded(sink.delay_ms))
           /\ sth' # "failed"]_vars

\* C22 for the delay the sink has stored: the product delay_ms * 1000000
\* within 32 bits
C22_FrameFilterStoredDelay ==
  [][FrameStep =>
       LET c == sink'.children[sink'.w_pipefd]
           p == Head(sq)
       IN  /\ FrameTried <=> (p.id = c.id /\ p.v >= c.time + sink.delay_ns)
           /\ sth' # "failed"]_vars

(***************************************************************************)
(* Properties of the frame writers.                                        *)
(***************************************************************************)

\* the rows h - 1, h - 2, .. 0 of a frame
RECURSIVE ReverseRows(_, _)
ReverseRows(r_sz, h) ==
  IF h = 0 THEN <<>> ELSE Span((h - 1) * r_sz, r_sz) \o ReverseRows(r_sz, h - 1)

\* the bytes of a frame in the order the writer is to send them
Expected(w) ==
  IF w.kind = "std" THEN Span(0, w.frame_size) ELSE ReverseRows(w.row_sz, w.num_lines)

\* C23: what the pipe has accepted of a frame is the beginning of the frame
\* in the writer's order, and write has returned the number of the bytes
\* still to be written: 0 exactly when all frame_size bytes are accepted
C23_FrameBytes ==
  wlog.inFrame =>
    /\ wpc # "undefined"
    /\ Len(accepted) <= Len(Expected(fw))
    /\ accepted = SubSeq(Expected(fw), 1, Len(accepted))
    /\ wret >= 0 => wret = fw.frame_size - Len(accepted)

\* C23 as long as no frame was given up after an error
C23_FrameBytesNoAbort == ~wlog.aborted => C23_FrameBytes

\* a frame of three rows went through the invert writer in partial writes
C23_CompleteFrame ==
  /\ fw.kind = "invert" /\ fw.num_lines = 3 /\ wpc = "idle" /\ wret = 0
  /\ wlog.frames = 2 /\ ~wlog.aborted
  /\ Len(accepted) = fw.frame_size

(***************************************************************************)
(* Properties of the demux.                                                *)
(***************************************************************************)

\* the messages of the merged stream for sub-stream id of the given types,
\* in input order, and the CLOSE that ends it
SubStream(types, id) ==
  SelectSeq(dlog.input, LAMBDA m : (m.type \in types /\ m.id = id)
                                   \/ m.type = GLC_MESSAGE_CLOSE)

\* the sub-stream list serves exactly the ids of the given types in the input
Serves(list, types) ==
  /\ \A k \in 1..Len(list) : list[k].buf = SubStream(types, list[k].id)
  /\ \A k, j \in 1..Len(list) : list[k].id = list[j].id => k = j
  /\ \A n \in 1..Len(dlog.input) :
       dlog.input[n].type \in types =>
         \E k \in 1..Len(list) : list[k].id = dlog.input[n].id

\* the merged stream has ended with CLOSE and every player was started and
\* has neither left nor failed before the demux has read the CLOSE
DemuxedToTheEnd ==
  /\ dmx.pc \in {"finish", "done"}
  /\ dlog.input # <<>>
  /\ dlog.input[Len(dlog.input)].type = GLC_MESSAGE_CLOSE
  /\ dlog.quits = 0 /\ dlog.violated = {} /\ dmx.faults = 0

\* C24: when the merged stream has ended with CLOSE, every sub-stream buffer
\* has received the format and data messages of its kind and id, in input
\* order, and then one CLOSE; there is one sub-stream for every id of a kind
C24_DemuxRoutes ==
  DemuxedToTheEnd =>
    /\ Serves(dmx.video, VideoTypes)
    /\ Serves(dmx.audio, AudioTypes)

\* two video sub-streams and an audio sub-stream were served to the end
C24_Witness ==
  /\ DemuxedToTheEnd
  /\ Len(dmx.video) = 2 /\ Len(dmx.audio) = 1
  /\ \E k \in 1..2 : Len(dmx.video[k].buf) = 3

\* C25: while the demux runs its lists hold live sub-streams only: a
\* sub-stream that was cleaned after its buffer returned EINTR is in no list
C25_ListHoldsLiveStreams ==
  dmx.pc = "run" =>
    /\ \A k \in 1..Len(dmx.video) : ~dmx.video[k].destroyed /\ dmx.video[k].running
    /\ \A k \in 1..Len(dmx.audio) : ~dmx.audio[k].destroyed /\ dmx.audio[k].running

\* C37: after a sub-stream has been cleaned (player joined, packet and buffer
\* destroyed) no later message with its id is written through the destroyed
\* packet: demux_stream_send never meets a destroyed sub-stream
C37_NoSendAfterClean == ~dlog.ub

\* C26: after a protocol violation in one sub-stream the state is not
\* cancelled, the demux reads on to the CLOSE of the merged stream, and the
\* players of the other sub-streams are not stopped
C26_ViolationIsLocal ==
  dlog.violated # {} =>
    /\ ~dmx.cancel
    /\ dmx.pc \in {"finish", "done"} =>
         dlog.input[Len(dlog.input)].type = GLC_MESSAGE_CLOSE
    /\ \A k \in 1..Len(dmx.video) :
         dmx.video[k].cons = "quit" => dlog.quits > 0

\* C26, as the code has it: a protocol violation in one sub-stream sets
\* GLC_STATE_CANCEL; the demux reads at most one more message and leaves its
\* loop, CLOSE or not, and at its end every sub-stream is stopped with its
\* buffer cancelled
C26_ViolationCancelsAll ==
  dlog.violated # {} =>
    /\ dmx.cancel
    /\ Len(dlog.input) <= dlog.at + 1
    /\ Len(dlog.input) = dlog.at + 1 => dmx.pc # "run"
    /\ dmx.pc = "done" =>
         /\ \A k \in 1..Len(dmx.video) : ~dmx.video[k].running /\ dmx.video[k].cancelled
         /\ \A k \in 1..Len(dmx.audio) : ~dmx.audio[k].running /\ dmx.audio[k].cancelled

\* audio data came before its format while a video sub-stream was playing:
\* the demux has ended before the CLOSE of the merged stream and has stopped
\* the video player
C26_Witness ==
  /\ dlog.violated = {1} /\ dlog.quits = 0
  /\ dmx.pc = "done"
  /\ dlog.input[Len(dlog.input)].type # GLC_MESSAGE_CLOSE
  /\ \E k \in 1..Len(dmx.video) : dmx.video[k].cons = "quit"

\* the threads that are between the lock and the unlock of
\* capture_action_lock
InBody(c) == req[c].pc \in {"body", "sources", "unlock"}

\* C27: the bodies of start_capture_impl() and stop_capture() never overlap,
\* the operations that succeed are start, stop, start, ... in turn, and a
\* start while capturing or a stop while not capturing gives EAGAIN and has
\* changed nothing when it returns
C27_CaptureSerialized ==
  /\ \A c, d \in Callers : InBody(c) /\ InBody(d) => c = d
  /\ \A i \in 1..Len(clog.hist) :
       clog.hist[i] = IF i % 2 = 1 THEN "start" ELSE "stop"
  /\ \A c \in Callers :
       req[c].pc = "unlock" =>
         /\ req[c].ret = "EAGAIN" <=>
              req[c].snap.capturing = (req[c].op = "start")
         /\ req[c].ret = "EAGAIN" => CaptureState(cap) = req[c].snap

\* a start, a stop and a start have succeeded, a request has just been
\* refused with EAGAIN and the other thread waits for the mutex
C27_Witness ==
  /\ clog.hist = <<"start", "stop", "start">>
  /\ \E c, d \in Callers :
       /\ req[c].pc = "unlock" /\ req[c].ret = "EAGAIN"
       /\ req[d].pc = "lock"

\* the allocations of a kind that have got their id: the ones that have
\* returned and the ones on their way out
Assigned(k) == {c \in Allocators : alloc[c].kind = k /\ alloc[c].pc \in {"unlock", "return"}}
AssignedIds(k) ==
  {ilog[k][i] : i \in 1..Len(ilog[k])} \cup {alloc[c].id : c \in Assigned(k)}

\* C28: the sids given out for a kind are 1, 2, 3, ... without duplicate and
\* without gap, and the count of a kind moves with the allocations of that
\* kind only
C28_StreamIds ==
  \A k \in StreamKinds :
    LET n == Len(ilog[k]) + Cardinality(Assigned(k))
    IN  /\ AssignedIds(k) = 1..n
        /\ sids[k].count = n
        /\ sids[k].list = [i \in 1..n |-> n + 1 - i]

\* two video sids and one audio id have been returned while a third thread
\* waits for the video lock that another allocation holds
C28_Witness ==
  /\ Len(ilog["video"]) = 2 /\ Len(ilog["audio"]) = 1
  /\ \E c, d \in Allocators :
       /\ alloc[c].pc = "wrlock" /\ alloc[c].kind = "video"
       /\ sids["video"].lock = d /\ d # 0 /\ d # c

\* C29: when write_process_wait returns, the write thread has ended
C29_WaitReturnsAfterThread == jw.pc = "returned" => ~jw.alive

\* C29, the part of it the code keeps: a wait that returns 0 has joined the
\* thread
C29_JoinedWhenZero == jw.pc = "returned" /\ jw.ret = "0" => Terminated(jth.pc)

\* write_process_wait has returned while the thread was inside a callback
\* request
C29_ReturnedDuringCallback ==
  jw.pc = "returned" /\ jw.ret = "EAGAIN" /\ jw.incall /\ jw.alive

\* the worker owns the open mutex of its group
HoldsOpen(t) == IsRW(Group(t)) /\ priv[Group(t)].open = t

\* C30: no header, read or write callback runs while its worker holds the
\* open-lock of the group
C30_NoCallbackUnderLock ==
  \A t \in Threads : th[t].pc \in {"rcb", "wdata"} => ~HoldsOpen(t)

\* C30, as the code has it: a worker of a reading and writing group holds
\* the open-lock from before it opens the read side until it has opened the
\* write side, the header and the read callback included (or until the err
\* label when one of these steps fails); the write callback and all that
\* follows run without the lock
C30_LockSpansReadCallbacks ==
  \A t \in Threads :
    /\ HoldsOpen(t) => th[t].has_locked /\ th[t].pc \in {"ropen", "rcb", "wopen", "err"}
    /\ IsRW(Group(t)) /\ th[t].pc \in {"ropen", "rcb", "wopen"} => HoldsOpen(t)

\* a worker is about to run its write callback while another worker of its
\* group holds the lock and is about to run its header and read callbacks
C30_Witness ==
  \E t, u \in Threads :
    /\ t # u /\ Group(t) = Group(u)
    /\ th[t].pc = "wdata" /\ GLC_THREAD_COPY \notin th[t].flags
    /\ th[u].pc = "rcb" /\ HoldsOpen(u)

\* the output packet of the worker is open and setsize has not been called
\* on it: the worker still owns the write side of the buffer
UnsizedPacket(t) ==
  /\ GLC_THREAD_WRITE \in ThreadFlags(Group(t))
  /\ buf[ToBuf(Group(t))].wlock = t

\* C31: a worker that has left its loop has no output packet left open
\* without its size: an error between the open and setsize cancelled it
C31_UnsizedPacketCancelled ==
  \A t \in Threads :
    th[t].pc \in {"finish", "cancel", "tfinish", "done"} => ~UnsizedPacket(t)

\* the PCM has been started and not dropped since
PcmStarted == pcm \in {"RUNNING", "XRUN"}

\* C32: whenever the capture thread calls poll(), the PCM descriptors are in
\* the polled set exactly when the PCM is started
C32_PollSetFollowsPcm == apc = "poll" => (ac.nfds > 1 <=> PcmStarted)

\* C33: the sink thread is never left inside stop_capture(), holding
\* capture_action_lock, waiting for its own input buffer to become empty
C33_StopCaptureReturns == sth # "draining"

\* C34: the write thread of the file sink never writes a message through
\* the NULL handle a failed reload leaves behind
C34_NoWriteWithoutTarget == ~slog.nullWrite

\* C35: time_difference never exceeds the clock, so the state time is never
\* negative
C35_StateTimeNotNegative == tm.time_difference <= clk

\* the sub-stream has been sent the CLOSE of the merged stream
GotClose(s) == s.buf # <<>> /\ s.buf[Len(s.buf)].type = GLC_MESSAGE_CLOSE

\* C36: when the demux has ended after the CLOSE broadcast, every player
\* that did not leave by itself has read all the messages of its buffer, the
\* CLOSE included
C36_PlayersReadToClose ==
  (dmx.pc = "done" /\ dlog.quits = 0 /\ dlog.violated = {} /\ ~dlog.ub /\ ~dmx.cancel) =>
    \A kind \in {"video", "audio"} :
      \A k \in 1..Len(dmx[kind]) :
        GotClose(dmx[kind][k]) =>
          dmx[kind][k].cons = "done" /\ dmx[kind][k].pos = Len(dmx[kind][k].buf)

\* C38: when alsa_capture_open() fails in the capture thread, the thread
\* terminates: it does not enter the poll loop, touches the PCM no more and
\* emits no packet
C38_FailedOpenEndsThread ==
  hist.openFailed => /\ apc \in {"end", "done"}
                     /\ abuf = <<>>

\* C39: for a group of GroupSize workers the finish callback is invoked
\* exactly once, and only after every worker has run its finish step, also
\* when workers end while glc_thread_create() still creates the others
C39_FinishOnceAfterAll ==
  gpriv.faults = 0 =>
    /\ Len(glog) <= 1
    /\ \A i \in 1..Len(glog) : glog[i].finished = GroupSize
    /\ (gpriv.pc = "done" /\ \A wk \in GroupWorkers : gth[wk].pc = "done")
         => Len(glog) = 1

\* the rows of the invert writer's vector have their full length and the
\* counter of the bytes left is the size of the frame
RowsWhole(w) ==
  /\ \A i \in 1..w.num_lines : w.iov[i].len = w.row_sz
  /\ w.left = w.frame_size

\* C40: every write_init of the invert writer leaves each row of the vector
\* row_sz bytes long and left equal to frame_size, also after a frame that
\* was given up in the middle of a row
C40_WriteInitRestoresRows ==
  [][(WriteInit /\ fw.kind = "invert") => RowsWhole(fw')]_vars

\* C40 as long as no frame was given up
C40_WriteInitNoAbort ==
  [][(WriteInit /\ fw.kind = "invert" /\ ~wlog.aborted) => RowsWhole(fw')]_vars

====
